---------------------------- MODULE Spec2Model ----------------------------
(***************************************************************************)
(* A model of custom_cross_section (src/def_custom_cross_section.py): the  *)
(* interpolation of an N-dimensional field, whose two trailing dimensions  *)
(* are spatial, onto a path of `steps` points between two geographic       *)
(* points of a (possibly curvilinear) latitude/longitude grid.             *)
(*                                                                         *)
(* One call is one behaviour.  Init draws the call's arguments from        *)
(* bounded sets; every action is one block of the function's body, in the  *)
(* order of the source, and a raise ends the behaviour in pc = "raised".   *)
(*                                                                         *)
(* Number representation.  Angles given in degrees are integers (degrees); *)
(* the arguments are chosen so that numpy.linspace yields whole degrees.   *)
(* Trigonometric values are fixed-point with Unit = 10^4, read from a      *)
(* table of sin at every half degree; great-circle distances are whole     *)
(* kilometres and orientation angles are tenths of a degree.  A field      *)
(* value is an integer, and NaN is the distinguished value NaN.            *)
(***************************************************************************)
EXTENDS Integers, Sequences, FiniteSets, TLC

(***************************************************************************)
(* Bounds of the model.                                                    *)
(***************************************************************************)
\* the path has 2..MaxSteps points
MaxSteps == 3
\* every leading (non-spatial) dimension has length 1..MaxLeadLen
MaxLeadLen == 2

(***************************************************************************)
(* Sequences and arrays.  An array is [shape, flat]: its shape and its     *)
(* elements in C (row-major) order, as numpy holds a contiguous array.     *)
(***************************************************************************)
Range(s) == {s[i] : i \in 1..Len(s)}

RECURSIVE Prod(_)
Prod(s) == IF s = <<>> THEN 1 ELSE Head(s) * Prod(Tail(s))

RECURSIVE SelectIdx(_, _)
\* the elements of s at the positions where the boolean sequence keep holds
SelectIdx(s, keep) ==
    IF s = <<>> THEN <<>>
    ELSE (IF Head(keep) THEN <<Head(s)>> ELSE <<>>) \o SelectIdx(Tail(s), Tail(keep))

Abs(x) == IF x < 0 THEN -x ELSE x

\* integer division rounding toward zero
TruncDiv(a, b) == IF a >= 0 THEN a \div b ELSE -((-a) \div b)

Min(S) == CHOOSE x \in S : \A y \in S : x <= y

\* the C-order position (0-based) of multi-index ix (0-based) in an array of shape sh
RECURSIVE RavelIndex(_, _)
RavelIndex(ix, sh) ==
    IF ix = <<>> THEN 0
    ELSE Head(ix) * Prod(Tail(sh)) + RavelIndex(Tail(ix), Tail(sh))

\* every multi-index (0-based) of an array of shape sh
RECURSIVE MultiIndices(_)
MultiIndices(sh) ==
    IF sh = <<>> THEN {<<>>}
    ELSE {<<i>> \o r : i \in 0..(Head(sh) - 1), r \in MultiIndices(Tail(sh))}

\* numpy.ndarray.ravel / reshape(-1): the elements in C order
Ravel(arr) == arr.flat

\* arr[ix] for a full multi-index
Elem(arr, ix) == arr.flat[RavelIndex(ix, arr.shape) + 1]

(***************************************************************************)
(* Fixed-point trigonometry (numpy.sin, cos, radians, arcsin, sqrt,        *)
(* arctan2, degrees).                                                      *)
(***************************************************************************)
Unit == 10000

\* SinTab[k+1] = round(Unit * sin(k/2 degrees)), k = 0..180
SinTab ==
  << 0, 87, 175, 262, 349, 436, 523, 610, 698, 785, 872, 958,
     1045, 1132, 1219, 1305, 1392, 1478, 1564, 1650, 1736, 1822, 1908, 1994,
     2079, 2164, 2250, 2334, 2419, 2504, 2588, 2672, 2756, 2840, 2924, 3007,
     3090, 3173, 3256, 3338, 3420, 3502, 3584, 3665, 3746, 3827, 3907, 3987,
     4067, 4147, 4226, 4305, 4384, 4462, 4540, 4617, 4695, 4772, 4848, 4924,
     5000, 5075, 5150, 5225, 5299, 5373, 5446, 5519, 5592, 5664, 5736, 5807,
     5878, 5948, 6018, 6088, 6157, 6225, 6293, 6361, 6428, 6494, 6561, 6626,
     6691, 6756, 6820, 6884, 6947, 7009, 7071, 7133, 7193, 7254, 7314, 7373,
     7431, 7490, 7547, 7604, 7660, 7716, 7771, 7826, 7880, 7934, 7986, 8039,
     8090, 8141, 8192, 8241, 8290, 8339, 8387, 8434, 8480, 8526, 8572, 8616,
     8660, 8704, 8746, 8788, 8829, 8870, 8910, 8949, 8988, 9026, 9063, 9100,
     9135, 9171, 9205, 9239, 9272, 9304, 9336, 9367, 9397, 9426, 9455, 9483,
     9511, 9537, 9563, 9588, 9613, 9636, 9659, 9681, 9703, 9724, 9744, 9763,
     9781, 9799, 9816, 9833, 9848, 9863, 9877, 9890, 9903, 9914, 9925, 9936,
     9945, 9954, 9962, 9969, 9976, 9981, 9986, 9990, 9994, 9997, 9998, 10000,
     10000 >>

\* Unit * sin of h half-degrees, any integer h
SinHalf(h) ==
    LET r == h % 720
    IN  IF r <= 180 THEN SinTab[r + 1]
        ELSE IF r <= 360 THEN SinTab[360 - r + 1]
        ELSE IF r <= 540 THEN -SinTab[r - 360 + 1]
        ELSE -SinTab[720 - r + 1]

CosHalf(h) == SinHalf(h + 180)

\* np.sin(np.radians(d)), np.cos(np.radians(d)) for d whole degrees
Sin(d) == SinHalf(2 * d)
Cos(d) == CosHalf(2 * d)

\* the largest k in lo..hi with SinTab[k+1]^2 <= a  (SinTab[lo+1]^2 <= a is given)
RECURSIVE SinSqFloor(_, _, _)
SinSqFloor(lo, hi, a) ==
    IF lo = hi THEN lo
    ELSE LET mid == (lo + hi + 1) \div 2
         IN  IF SinTab[mid + 1] * SinTab[mid + 1] <= a
             THEN SinSqFloor(mid, hi, a)
             ELSE SinSqFloor(lo, mid - 1, a)

\* 2 * arcsin(sqrt(a / Unit^2)) in hundredths of a degree, 0 <= a
ArcsinSqrt2(a) ==
    LET k   == SinSqFloor(0, 180, a)
        lo2 == SinTab[k + 1] * SinTab[k + 1]
        hi2 == IF k < 180 THEN SinTab[k + 2] * SinTab[k + 2] ELSE lo2
    IN  IF hi2 = lo2 THEN 100 * k
        ELSE 100 * k + (100 * (a - lo2)) \div (hi2 - lo2)

\* the angle of (ax, ay), ax >= 0, ay >= 0, in tenths of a degree, 0..900
RECURSIVE TanFloor(_, _, _, _)
TanFloor(lo, hi, ay, ax) ==
    IF lo = hi THEN lo
    ELSE LET mid == (lo + hi + 1) \div 2
         IN  IF ax * SinTab[mid + 1] <= ay * SinTab[180 - mid + 1]
             THEN TanFloor(mid, hi, ay, ax)
             ELSE TanFloor(lo, mid - 1, ay, ax)

QuadrantAngle(ay, ax) ==
    IF ax = 0 THEN (IF ay = 0 THEN 0 ELSE 900)
    ELSE IF ay = 0 THEN 0
    ELSE LET k  == TanFloor(0, 179, ay, ax)
             f0 == ay * SinTab[180 - k + 1] - ax * SinTab[k + 1]
             f1 == ay * SinTab[180 - k] - ax * SinTab[k + 2]
         IN  5 * k + (5 * f0) \div (f0 - f1)

\* np.degrees(np.arctan2(y, x)) in tenths of a degree, -1800 < result <= 1800
Arctan2Deg(y, x) ==
    LET q == QuadrantAngle(Abs(y), Abs(x))
    IN  IF x >= 0 THEN (IF y >= 0 THEN q ELSE -q)
        ELSE (IF y >= 0 THEN 1800 - q ELSE -(1800 - q))


(***************************************************************************)
(* The geodesy helpers nested in custom_cross_section.                     *)
(***************************************************************************)
\* R = 6371.0, the Earth's radius in km
R == 6371

\* np.linspace(a, b, n): n evenly spaced values from a to b, both included
\* (0-based index i); the arguments make every value a whole degree
LinspaceAt(a, b, n, i) == a + (i * (b - a)) \div (n - 1)
\* fault variant of Linspace: np.linspace(a, b, n, endpoint=False)
LinspaceNoEndpoint(a, b, n) == [i \in 1..n |-> a + ((i - 1) * (b - a)) \div n]

Linspace(a, b, n) == [i \in 1..n |-> LinspaceAt(a, b, n, i - 1)]

\* a = sin(dlat/2)^2 + cos(lat1) cos(lat2) sin(dlon/2)^2, scaled by Unit^2
HaversineA(lat1, lon1, lat2, lon2) ==
    LET dlat == lat2 - lat1
        dlon == lon2 - lon1
        sd   == Abs(SinHalf(dlat))
        se   == Abs(SinHalf(dlon))
        cc   == (Cos(lat1) * Cos(lat2)) \div Unit
    IN  sd * sd + ((cc * se) \div Unit) * se

\* R * c with c = 2 arcsin(sqrt(a)) in radians: whole km
haversine_distance(lat1, lon1, lat2, lon2) ==
    LET c100 == ArcsinSqrt2(HaversineA(lat1, lon1, lat2, lon2))
        c    == (c100 * 31416) \div 18000
    IN  (R * c) \div Unit

\* fault variant of haversine_distance_vectorized: the two cosines left out
HaversineVectorizedNoCos(lat1, lon1, lat2, lon2) ==
    [j \in 1..Len(lat2) |->
        [i \in 1..Len(lat1) |->
            LET sd   == Abs(SinHalf(lat2[j] - lat1[i]))
                se   == Abs(SinHalf(lon2[j] - lon1[i]))
                c100 == ArcsinSqrt2(Min({sd * sd + se * se, Unit * Unit}))
                c    == (c100 * 31416) \div 18000
            IN  (R * c) \div Unit]]

\* the matrix of shape (m, n): row j is path point j, column i is grid point i
haversine_distance_vectorized(lat1, lon1, lat2, lon2) ==
    [j \in 1..Len(lat2) |->
        [i \in 1..Len(lat1) |->
            LET c100 == ArcsinSqrt2(HaversineA(lat1[i], lon1[i], lat2[j], lon2[j]))
                c    == (c100 * 31416) \div 18000
            IN  (R * c) \div Unit]]

\* Latitudes are whole degrees, but for a hair: hair = -1 says that lat2 is
\* less than the whole number given for it by less than the model resolves,
\* lat1 being that whole number or as much over its own, and hair = 0 that
\* the two latitudes differ by the whole degrees given. A call has
\* args.hair = -1 for the path start = (0, 0), end = (-1e-15, 12), and
\* args.hair = -2 for a path whose start latitude is the float64 next above
\* the whole number given and whose end latitude is that whole number, as
\* start = (0.1 + 0.2, 120), end = (0.3, 121) is.

\* orientation % 360 in float64, on tenths of a degree; `below` says that the
\* float is less than o / 10 by less than half the spacing of the floats
\* under 360 (2.8e-14): the remainder of such a negative number, 360 minus
\* it, rounds to 360.0
Mod360(o, below) == IF below /\ o % 3600 = 0 THEN 3600 ELSE o % 3600

\* fault variant of calculate_orientation_angle_spherical: the bearing from
\* north, clockwise, is returned as it is
SphericalBearingFromNorth(lat1, lon1, lat2, lon2, hair) ==
    LET dlon == lon2 - lon1
        y    == TruncDiv(Sin(dlon) * Cos(lat2), Unit)
        x    == TruncDiv(Cos(lat1) * Sin(lat2), Unit)
                - TruncDiv(TruncDiv(Sin(lat1) * Cos(lat2), Unit) * Cos(dlon), Unit)
    IN  Arctan2Deg(y, x) % 3600

calculate_orientation_angle_spherical(lat1, lon1, lat2, lon2, hair) ==
    LET dlon == lon2 - lon1
        y    == TruncDiv(Sin(dlon) * Cos(lat2), Unit)
        x    == TruncDiv(Cos(lat1) * Sin(lat2), Unit)
                - TruncDiv(TruncDiv(Sin(lat1) * Cos(lat2), Unit) * Cos(dlon), Unit)
        bearing_from_north == Arctan2Deg(y, x)
        \* x = sin(lat2) is a hair under 0 and the bearing a hair over 90
        below == hair < 0 /\ lat1 = 0 /\ lat2 = 0 /\ dlon > 0 /\ dlon < 180
    IN  Mod360(900 - bearing_from_north, below)

calculate_orientation_angle_cartesian(lat1, lon1, lat2, lon2, hair) ==
    LET dlat == lat2 - lat1
        dlon == lon2 - lon1
        \* arctan2 of a dlat a hair under 0: a hair under 0 towards the east,
        \* -90 with dlon = 0, -180 towards the west
        angle == IF hair < 0 /\ dlat = 0
                 THEN (IF dlon > 0 THEN 0 ELSE IF dlon = 0 THEN -900 ELSE -1800)
                 ELSE Arctan2Deg(dlat, dlon)
        below == hair < 0 /\ dlat = 0 /\ dlon > 0
    IN  Mod360(angle, below)

\* the function the orientation_method selects (a valid method is given)
calculate_orientation_angle(orientation_method, lat1, lon1, lat2, lon2, hair) ==
    IF orientation_method = "spherical"
    THEN calculate_orientation_angle_spherical(lat1, lon1, lat2, lon2, hair)
    ELSE calculate_orientation_angle_cartesian(lat1, lon1, lat2, lon2, hair)

\* fault variant of DirectionDesc: bins closed at their upper edge
DirectionDescClosed(orientation_angle) ==
    IF orientation_angle <= 225 \/ orientation_angle > 3375 THEN "E"
    ELSE IF 225 < orientation_angle /\ orientation_angle <= 675 THEN "NE"
    ELSE IF 675 < orientation_angle /\ orientation_angle <= 1125 THEN "N"
    ELSE IF 1125 < orientation_angle /\ orientation_angle <= 1575 THEN "NW"
    ELSE IF 1575 < orientation_angle /\ orientation_angle <= 2025 THEN "W"
    ELSE IF 2025 < orientation_angle /\ orientation_angle <= 2475 THEN "SW"
    ELSE IF 2475 < orientation_angle /\ orientation_angle <= 2925 THEN "S"
    ELSE "SE"

\* the compass octant of an orientation given in tenths of a degree
DirectionDesc(orientation_angle) ==
    IF orientation_angle < 225 \/ orientation_angle >= 3375 THEN "E"
    ELSE IF 225 <= orientation_angle /\ orientation_angle < 675 THEN "NE"
    ELSE IF 675 <= orientation_angle /\ orientation_angle < 1125 THEN "N"
    ELSE IF 1125 <= orientation_angle /\ orientation_angle < 1575 THEN "NW"
    ELSE IF 1575 <= orientation_angle /\ orientation_angle < 2025 THEN "W"
    ELSE IF 2025 <= orientation_angle /\ orientation_angle < 2475 THEN "SW"
    ELSE IF 2475 <= orientation_angle /\ orientation_angle < 2925 THEN "S"
    ELSE "SE"

\* distances_km: the cumulative great-circle distance along the path
RECURSIVE CumulativeDistance(_, _, _)
CumulativeDistance(lats_path, lons_path, i) ==
    IF i = 1 THEN 0
    ELSE CumulativeDistance(lats_path, lons_path, i - 1)
         + haversine_distance(lats_path[i - 1], lons_path[i - 1],
                              lats_path[i], lons_path[i])

\* fault variant of DistancesKm: the length of the segment that ends at the
\* point, with no sum
DistancesKmSegments(lats_path, lons_path, steps) ==
    [i \in 1..steps |->
        IF i = 1 THEN 0
        ELSE haversine_distance(lats_path[i - 1], lons_path[i - 1],
                                lats_path[i], lons_path[i])]

DistancesKm(lats_path, lons_path, steps) ==
    [i \in 1..steps |-> CumulativeDistance(lats_path, lons_path, i)]

\* np.linspace on a start latitude one float64 over the end latitude: the
\* number of floats that point i of the path (from 1) lies over the end. The
\* exact point start - (i - 1) / (steps - 1) of the gap rounds to the nearer
\* of the two floats, and half-way to the end, whose last bit is even
LatUlps(steps, i) == IF 2 * (i - 1) < steps - 1 THEN 1 ELSE 0

\* the hair of the pair of path points i < j of a call: with args.hair = -1
\* np.linspace spreads the 1e-15 along the path and every later point is a
\* hair under every earlier one; with args.hair = -2 two points that
\* rounded to the same float are level
PairHair(hair, steps, i, j) ==
    IF hair = 0 - 1 THEN 0 - 1
    ELSE IF hair = 0 - 2 /\ LatUlps(steps, i) > LatUlps(steps, j) THEN 0 - 1
    ELSE 0

\* fault variant of PointOrientations: the orientation of every point seen
\* from the start of the path
PointOrientationsFromStart(om, lats_path, lons_path, steps, hair) ==
    [i \in 1..steps |->
        calculate_orientation_angle(om, lats_path[1], lons_path[1],
                                    lats_path[i], lons_path[i],
                                    IF i = 1 THEN 0 ELSE PairHair(hair, steps, 1, i))]

\* point_orientations: forward, centred and backward differences
PointOrientations(om, lats_path, lons_path, steps, hair) ==
    [i \in 1..steps |->
        IF i = 1
        THEN calculate_orientation_angle(om, lats_path[1], lons_path[1],
                                         lats_path[2], lons_path[2],
                                         PairHair(hair, steps, 1, 2))
        ELSE IF i = steps
        THEN calculate_orientation_angle(om, lats_path[steps - 1], lons_path[steps - 1],
                                         lats_path[steps], lons_path[steps],
                                         PairHair(hair, steps, steps - 1, steps))
        ELSE calculate_orientation_angle(om, lats_path[i - 1], lons_path[i - 1],
                                         lats_path[i + 1], lons_path[i + 1],
                                         PairHair(hair, steps, i - 1, i + 1))]

(***************************************************************************)
(* numpy and scipy operations the function calls.                          *)
(***************************************************************************)
\* np.nan
NaN == -1

IsNaN(v) == v = NaN

\* np.column_stack([a, b]) of two 1-D arrays: the rows <<a[i], b[i]>>; numpy
\* raises ValueError when the two lengths differ
ColumnStackRaises(a, b) == Len(a) # Len(b)
ColumnStack(a, b) == [i \in 1..Len(a) |-> <<a[i], b[i]>>]

\* a[mask] with a boolean mask: numpy raises IndexError when the lengths differ
BoolIndexRaises(a, mask) == Len(a) # Len(mask)
BoolIndex(a, mask) == SelectIdx(a, mask)

\* fault variant of Reshape2D: the buffer cut in column-major (Fortran) order
Reshape2DColumnMajor(flat, n) ==
    LET w == IF n = 0 THEN 0 ELSE Len(flat) \div n
    IN  [i \in 1..n |-> [j \in 1..w |-> flat[(j - 1) * n + i]]]

\* arr.reshape(n, -1): row i (1-based) of the C-order buffer cut into n rows
Reshape2D(flat, n) ==
    LET w == IF n = 0 THEN 0 ELSE Len(flat) \div n
    IN  [i \in 1..n |-> SubSeq(flat, (i - 1) * w + 1, i * w)]

\* rows.reshape(shape): the concatenation of the rows is the C-order buffer
RECURSIVE Concat(_)
Concat(rows) == IF rows = <<>> THEN <<>> ELSE Head(rows) \o Concat(Tail(rows))

\* twice the signed area of the triangle a, b, c of <<lat, lon>> points
Cross(a, b, c) == (b[1] - a[1]) * (c[2] - a[2]) - (b[2] - a[2]) * (c[1] - a[1])

\* Qhull cannot triangulate fewer than three points or points on one line
Degenerate(points) ==
    \A i, j, k \in 1..Len(points) : Cross(points[i], points[j], points[k]) = 0

\* q lies in the closed triangle a, b, c (which has a non-zero area)
InTriangle(q, a, b, c) ==
    LET d1 == Cross(a, b, q)
        d2 == Cross(b, c, q)
        d3 == Cross(c, a, q)
    IN  /\ Cross(a, b, c) # 0
        /\ \/ (d1 >= 0 /\ d2 >= 0 /\ d3 >= 0)
           \/ (d1 <= 0 /\ d2 <= 0 /\ d3 <= 0)

\* the triangles of source points (index triples) that contain q
Containing(points, q) ==
    LET n == Len(points)
    IN  {t \in UNION {{<<i, j, k>> : k \in (j + 1)..n} : i \in 1..n, j \in 1..n} :
            /\ t[1] < t[2]
            /\ InTriangle(q, points[t[1]], points[t[2]], points[t[3]])}

\* the first triple of a non-empty set of index triples, in index order
FirstTriple(T) ==
    CHOOSE t \in T : \A u \in T :
        \/ t[1] < u[1]
        \/ (t[1] = u[1] /\ t[2] < u[2])
        \/ (t[1] = u[1] /\ t[2] = u[2] /\ t[3] <= u[3])

\* NearestNDInterpolator: the value of the source point closest to q in
\* (lat, lon) coordinates, the first in index order among equally close ones
Dist2(p, q) == (p[1] - q[1]) * (p[1] - q[1]) + (p[2] - q[2]) * (p[2] - q[2])

NearestIndex(points, q) ==
    CHOOSE i \in 1..Len(points) :
        \A j \in 1..Len(points) :
            \/ Dist2(points[i], q) < Dist2(points[j], q)
            \/ (Dist2(points[i], q) = Dist2(points[j], q) /\ i <= j)

NearestValue(points, values, q) == values[NearestIndex(points, q)]

\* LinearNDInterpolator / CloughTocher2DInterpolator: NaN outside the convex
\* hull of the source points; the value of a source point at that point;
\* inside the hull the interpolation over a triangle of source points that
\* contains q (SciPy takes the Delaunay triangle, the model the first
\* containing triangle in index order), rounded down
TriangleValue(points, values, q) ==
    LET T == Containing(points, q)
    IN  IF \E i \in 1..Len(points) : points[i] = q
        THEN values[CHOOSE i \in 1..Len(points) :
                        points[i] = q /\ \A j \in 1..(i - 1) : points[j] # q]
        ELSE IF T = {} THEN NaN
        ELSE LET t  == FirstTriple(T)
                 a  == points[t[1]]
                 b  == points[t[2]]
                 c  == points[t[3]]
                 w  == Abs(Cross(a, b, c))
                 wa == Abs(Cross(b, c, q))
                 wb == Abs(Cross(c, a, q))
                 wc == Abs(Cross(a, b, q))
             IN  (wa * values[t[1]] + wb * values[t[2]] + wc * values[t[3]]) \div w

\* the interpolation methods scipy.interpolate.griddata accepts
GriddataMethods == {"nearest", "linear", "cubic"}

\* griddata(points, values, xi, method=method) on a non-empty point set:
\* [error |-> the exception raised, "" when none, row |-> the values at xi]
Griddata(points, values, xi, method) ==
    IF method \notin GriddataMethods
    THEN [error |-> "ValueError", row |-> <<>>]
    ELSE IF method = "nearest"
    THEN [error |-> "", row |-> [k \in 1..Len(xi) |-> NearestValue(points, values, xi[k])]]
    ELSE IF Degenerate(points)
    THEN [error |-> "QhullError", row |-> <<>>]
    ELSE [error |-> "", row |-> [k \in 1..Len(xi) |-> TriangleValue(points, values, xi[k])]]

(***************************************************************************)
(* The arguments of a call.                                                *)
(***************************************************************************)
\* buffer_km=1E99, the default: farther than any two points of the sphere
DefaultBuffer == 1000000000

\* buffer_km=np.inf: above every distance
Infinity == 2147483647

OrientationMethods == {"cartesian", "spherical", "polar"}
Methods == {"nearest", "linear", "cubic", "quadratic"}
StepsSet == 2..MaxSteps
Buffers == {0, 700, DefaultBuffer, Infinity}

\* <<start, end>>, each (lat, lon): along the grid's southern edge, and far
\* from the grid
Paths == {<< <<0, 0>>, <<0, 12>> >>, << <<60, 60>>, <<60, 72>> >>}

\* the coordinates of the grid's rows and columns, in degrees
LatAxis == <<0, 6, 12>>
LonAxis == <<0, 6, 12>>

\* lats and lons as the callers build them: LON, LAT = np.meshgrid(lon_1d, lat_1d)
\* for a 2-D shape (ny, nx), the axis itself for a 1-D shape
LatArray(shape) ==
    IF Len(shape) = 1
    THEN [shape |-> shape, flat |-> SubSeq(LatAxis, 1, shape[1])]
    ELSE [shape |-> shape,
          flat  |-> [k \in 1..(shape[1] * shape[2]) |-> LatAxis[((k - 1) \div shape[2]) + 1]]]

LonArray(shape) ==
    IF Len(shape) = 1
    THEN [shape |-> shape, flat |-> SubSeq(LonAxis, 1, shape[1])]
    ELSE [shape |-> shape,
          flat  |-> [k \in 1..(shape[1] * shape[2]) |-> LonAxis[((k - 1) % shape[2]) + 1]]]

CoordShapes == {<<2>>, <<3>>, <<2, 3>>, <<3, 2>>}
TrailShapes == {<<2, 3>>, <<3, 2>>}

\* the shapes of the field's leading dimensions: none, one or two of them
LeadShapes ==
    {<<>>} \cup {<<a>> : a \in 1..MaxLeadLen}
           \cup {<<a, b>> : a \in 1..MaxLeadLen, b \in 1..MaxLeadLen}

\* the values of one spatial slice, n values in C order: all missing; all
\* present; one missing; all but the first two missing
Patterns == {"nan", "full", "hole", "sparse"}

SliceValues(pattern, n) ==
    [j \in 1..n |->
        IF pattern = "nan" THEN NaN
        ELSE IF pattern = "full" THEN 10 + j
        ELSE IF pattern = "hole" THEN (IF j = 2 THEN NaN ELSE 20 + j)
        ELSE (IF j <= 2 THEN 30 + j ELSE NaN)]

\* the slices of a field: all of pattern a, but for one slice of pattern b
PatternSeqs(n) ==
    {[i \in 1..n |-> IF i = k THEN b ELSE a] : a \in Patterns, b \in Patterns, k \in 1..n}

DimNames(lead) == SubSeq(<<"time", "vertical">>, 1, Len(lead)) \o <<"y", "x">>

\* the units a field carries: none, or a pint unit
UnitsSet == {"", "kelvin"}

\* an xarray.DataArray: dims, shape, the values in C order, the coordinates
\* of the leading dimensions, the attributes and the unit
DataArray(lead, trail, pats, units) ==
    [dims   |-> DimNames(lead),
     shape  |-> lead \o trail,
     flat   |-> Concat([i \in 1..Len(pats) |-> SliceValues(pats[i], Prod(trail))]),
     coords |-> {[name |-> DimNames(lead)[d], dim |-> DimNames(lead)[d],
                  values |-> [k \in 1..lead[d] |-> 100 * d + k]] : d \in 1..Len(lead)}
                \cup {[name |-> "lat", dim |-> "y", values |-> SubSeq(LatAxis, 1, trail[1])],
                      [name |-> "lon", dim |-> "x", values |-> SubSeq(LonAxis, 1, trail[2])]},
     attrs  |-> [long_name |-> "Simulated Temperature"],
     units  |-> units]

Fields(leads, trail, unitss) ==
    UNION {{DataArray(lead, trail, pats, u) : pats \in PatternSeqs(Prod(lead)), u \in unitss}
           : lead \in leads}

Args(data, path, lons, lats, steps, method, buffer_km, orientation_method) ==
    [data |-> data, start |-> path[1], end |-> path[2], lons |-> lons, lats |-> lats,
     steps |-> steps, method |-> method, buffer_km |-> buffer_km,
     orientation_method |-> orientation_method, hair |-> 0]

\* every configuration, on a well-formed grid
ConfigCalls ==
    {Args(d, p, LonArray(<<2, 3>>), LatArray(<<2, 3>>), st, m, b, om) :
        d \in Fields({<<>>, <<2>>}, <<2, 3>>, UnitsSet), p \in Paths, st \in StepsSet,
        m \in Methods, b \in {0, DefaultBuffer}, om \in OrientationMethods}

\* every combination of coordinate and field shapes
ShapeCalls ==
    {Args(d, << <<0, 0>>, <<0, 12>> >>, LonArray(lo), LatArray(la), st, m, b, "cartesian") :
        d \in UNION {Fields({<<>>}, tr, {""}) : tr \in TrailShapes},
        lo \in CoordShapes, la \in CoordShapes, st \in StepsSet,
        m \in {"nearest", "linear"}, b \in Buffers}

\* every field, on a well-formed grid
FieldCalls ==
    {Args(d, << <<0, 0>>, <<0, 12>> >>, LonArray(<<2, 3>>), LatArray(<<2, 3>>), st, m, b,
          "cartesian") :
        d \in Fields(LeadShapes, <<2, 3>>, {""}), st \in StepsSet,
        m \in {"nearest", "linear"}, b \in {0, DefaultBuffer}}

Calls == ConfigCalls \cup ShapeCalls \cup FieldCalls

(***************************************************************************)
(* generate_time_codes (src/generate_time10_list.py): datetime, strptime   *)
(* and strftime. A string is a sequence of one-character strings, a        *)
(* datetime a record of year, month, day and hour.                         *)
(***************************************************************************)
\* the longest list of time codes the model lets the loop build
MaxTimes == 5

Digits == <<"0", "1", "2", "3", "4", "5", "6", "7", "8", "9">>
IsDigit(c) == c \in Range(Digits)
DigitValue(c) == (CHOOSE n \in 1..10 : Digits[n] = c) - 1

\* int(s) of a string of digits
RECURSIVE Number(_)
Number(s) ==
    IF s = <<>> THEN 0
    ELSE 10 * Number(SubSeq(s, 1, Len(s) - 1)) + DigitValue(s[Len(s)])

\* the decimal digits of n, zero-padded to `width` characters (%Y, %m, %d, %H)
RECURSIVE Pow10(_)
Pow10(k) == IF k = 0 THEN 1 ELSE 10 * Pow10(k - 1)
Padded(n, width) == [i \in 1..width |-> Digits[((n \div Pow10(width - i)) % 10) + 1]]

IsLeap(year) == (year % 4 = 0 /\ year % 100 # 0) \/ year % 400 = 0
DaysInMonth(year, month) ==
    IF month = 2 THEN (IF IsLeap(year) THEN 29 ELSE 28)
    ELSE IF month \in {4, 6, 9, 11} THEN 30 ELSE 31
DaysInYear(year) == IF IsLeap(year) THEN 366 ELSE 365

\* the first year of the model's calendar: hours are counted from its start
EpochYear == 2024

RECURSIVE DaysBeforeYear(_)
DaysBeforeYear(year) ==
    IF year <= EpochYear THEN 0 ELSE DaysBeforeYear(year - 1) + DaysInYear(year - 1)

RECURSIVE DaysBeforeMonth(_, _)
DaysBeforeMonth(year, month) ==
    IF month = 1 THEN 0
    ELSE DaysBeforeMonth(year, month - 1) + DaysInMonth(year, month - 1)

\* the hours from the epoch to the datetime dt: what <= compares
Hours(dt) ==
    (DaysBeforeYear(dt.year) + DaysBeforeMonth(dt.year, dt.month) + dt.day - 1) * 24
    + dt.hour

RECURSIVE YearOfDays(_, _)
YearOfDays(days, year) ==
    IF days < DaysInYear(year) THEN <<year, days>>
    ELSE YearOfDays(days - DaysInYear(year), year + 1)

RECURSIVE MonthOfDays(_, _, _)
MonthOfDays(days, year, month) ==
    IF days < DaysInMonth(year, month) THEN <<month, days>>
    ELSE MonthOfDays(days - DaysInMonth(year, month), year, month + 1)

\* the datetime `hours` hours after the epoch (hours >= 0)
DatetimeOf(hours) ==
    LET yd == YearOfDays(hours \div 24, EpochYear)
        md == MonthOfDays(yd[2], yd[1], 1)
    IN  [year |-> yd[1], month |-> md[1], day |-> md[2] + 1, hour |-> hours % 24]

\* dt + timedelta(hours=interval)
PlusHours(dt, interval) == DatetimeOf(Hours(dt) + interval)

\* datetime.strptime(s, "%Y%m%d%H") of a string of ten characters: the
\* datetime, or the ValueError of a string that is no time of the calendar
StrptimeRaises(s) ==
    \/ \E i \in 1..Len(s) : ~IsDigit(s[i])
    \/ LET year  == Number(SubSeq(s, 1, 4))
           month == Number(SubSeq(s, 5, 6))
           day   == Number(SubSeq(s, 7, 8))
           hour  == Number(SubSeq(s, 9, 10))
       IN  \/ year < 1
           \/ month \notin 1..12
           \/ day < 1
           \/ (month \in 1..12 /\ day > DaysInMonth(year, month))
           \/ hour > 23

Strptime(s) ==
    [year |-> Number(SubSeq(s, 1, 4)), month |-> Number(SubSeq(s, 5, 6)),
     day |-> Number(SubSeq(s, 7, 8)), hour |-> Number(SubSeq(s, 9, 10))]

\* the formats the loop knows, and current_dt.strftime(...) for each
OutputFormats == {"time10", "wrf", "iso"}

Strftime(dt, output_format) ==
    IF output_format = "time10"
    THEN Padded(dt.year, 4) \o Padded(dt.month, 2) \o Padded(dt.day, 2) \o Padded(dt.hour, 2)
    ELSE IF output_format = "wrf"
    THEN Padded(dt.year, 4) \o <<"-">> \o Padded(dt.month, 2) \o <<"-">>
         \o Padded(dt.day, 2) \o <<"_">> \o Padded(dt.hour, 2)
         \o <<":", "0", "0", ":", "0", "0">>
    ELSE Padded(dt.year, 4) \o <<"-">> \o Padded(dt.month, 2) \o <<"-">>
         \o Padded(dt.day, 2) \o <<"T">> \o Padded(dt.hour, 2)

\* the arguments of a call: times around the end of a day, of a month, of a
\* leap February and of a year, and a string that is no time
Time10(n) == Padded(n \div 100, 8) \o Padded(n % 100, 2)
StartTimes ==
    {Time10(n) : n \in {2025072900, 2025072903, 2025073123, 2024022822, 2025123123,
                        2025023000}}
EndTimes ==
    {Time10(n) : n \in {2025072900, 2025072903, 2025080101, 2024022901, 2026010100,
                        2025072924}}
Intervals == {1, 3, 0 - 1, 0}
Formats == OutputFormats \cup {"grads"}

VARIABLES
    start_time, end_time, interval, output_format,   \* the arguments
    time_pc,             \* the line of generate_time_codes that runs next
    start_dt, end_dt, current_dt, times,
    time_error           \* the exception the call ended with

time_vars == <<start_time, end_time, interval, output_format, time_pc, start_dt,
               end_dt, current_dt, times, time_error>>

NoDatetime == [year |-> 0, month |-> 0, day |-> 0, hour |-> 0]

\* generate_time_codes is not running
TimeIdle ==
    /\ start_time = <<>> /\ end_time = <<>> /\ interval = 0 /\ output_format = ""
    /\ time_pc = "idle"
    /\ start_dt = NoDatetime /\ end_dt = NoDatetime /\ current_dt = NoDatetime
    /\ times = <<>>
    /\ time_error = ""

(***************************************************************************)
(* get_spatial_mask (src/definitions/get_spatial_mask.py): the numpy       *)
(* operations it calls, its arguments and its state.                       *)
(***************************************************************************)
\* np.meshgrid(x, y) of two 1-D arrays: the pair of (len(y), len(x)) arrays
Meshgrid(x, y) ==
    LET ny == Len(y.flat)
        nx == Len(x.flat)
    IN  <<[shape |-> <<ny, nx>>, flat |-> [k \in 1..(ny * nx) |-> x.flat[((k - 1) % nx) + 1]]],
          [shape |-> <<ny, nx>>, flat |-> [k \in 1..(ny * nx) |-> y.flat[((k - 1) \div nx) + 1]]]>>

\* np.broadcast_to(a[np.newaxis, :], shape) of a 1-D array a: a row repeated
\* down the rows; a ValueError unless a has the length of a row, or 1
BroadcastRowRaises(a, shape) == Len(a.flat) \notin {shape[2], 1}
BroadcastRow(a, shape) ==
    [shape |-> shape,
     flat  |-> [k \in 1..(shape[1] * shape[2]) |->
                   IF Len(a.flat) = 1 THEN a.flat[1] ELSE a.flat[((k - 1) % shape[2]) + 1]]]

\* np.broadcast_to(a[:, np.newaxis], shape) of a 1-D array a: a column
\* repeated along the rows; a ValueError unless a has the length of a
\* column, or 1
BroadcastColumnRaises(a, shape) == Len(a.flat) \notin {shape[1], 1}
BroadcastColumn(a, shape) ==
    [shape |-> shape,
     flat  |-> [k \in 1..(shape[1] * shape[2]) |->
                   IF Len(a.flat) = 1 THEN a.flat[1] ELSE a.flat[((k - 1) \div shape[2]) + 1]]]

\* the mask of step 6: the points inside the extent, its edges included
ExtentMask(lons_arr, lats_arr, extent) ==
    [shape |-> lons_arr.shape,
     flat  |-> [k \in 1..Len(lons_arr.flat) |->
                   /\ lons_arr.flat[k] >= extent[1]
                   /\ lons_arr.flat[k] <= extent[2]
                   /\ lats_arr.flat[k] >= extent[3]
                   /\ lats_arr.flat[k] <= extent[4]]]

\* m.any(axis=0) and m.any(axis=1) of a 2-D boolean array
AnyAxis0(m) ==
    [c \in 1..m.shape[2] |-> \E r \in 1..m.shape[1] : m.flat[(r - 1) * m.shape[2] + c]]
AnyAxis1(m) ==
    [r \in 1..m.shape[1] |-> \E c \in 1..m.shape[2] : m.flat[(r - 1) * m.shape[2] + c]]

\* np.where(b)[0] of a 1-D boolean array: the indices (from 0) that hold, in
\* increasing order
RECURSIVE WhereFrom(_, _)
WhereFrom(b, i) ==
    IF i > Len(b) THEN <<>>
    ELSE (IF b[i] THEN <<i - 1>> ELSE <<>>) \o WhereFrom(b, i + 1)
Where(b) == WhereFrom(b, 1)

\* slice(start, stop)
Slice(start, stop) == [start |-> start, stop |-> stop]

\* the indices (from 0) that a slice selects along an axis of length n
SliceIndices(s, n) ==
    LET lo == IF s.start < n THEN s.start ELSE n
        hi == IF s.stop < n THEN s.stop ELSE n
    IN  [k \in 1..(IF hi > lo THEN hi - lo ELSE 0) |-> lo + k - 1]

\* data[np.ix_(y_indices, x_indices)] of a 2-D array: the rows and columns
\* listed, in the order listed
IndexByIx(data, ys, xs) ==
    [shape |-> <<Len(ys), Len(xs)>>,
     flat  |-> [k \in 1..(Len(ys) * Len(xs)) |->
                   data.flat[ys[((k - 1) \div Len(xs)) + 1] * data.shape[2]
                             + xs[((k - 1) % Len(xs)) + 1] + 1]]]

\* data[y_slice, x_slice] of a 2-D array
IndexBySlices(data, ys, xs) ==
    IndexByIx(data, SliceIndices(ys, data.shape[1]), SliceIndices(xs, data.shape[2]))

\* the grids a caller passes, as (lons, lats): two 1-D axes; their meshgrid;
\* one of the two 1-D; a 1-D array of the wrong length with a 2-D one; two
\* 2-D arrays of different shapes; a 3-D array; a curvilinear grid whose
\* rows and columns run monotonically; a polar-stereographic grid of 3 x 3
\* points with the pole at its centre
MaskLons1D == [shape |-> <<3>>, flat |-> <<0, 6, 12>>]
MaskLats1D == [shape |-> <<2>>, flat |-> <<0, 6>>]
MaskGrids ==
    LET lons2d == Meshgrid(MaskLons1D, MaskLats1D)[1]
        lats2d == Meshgrid(MaskLons1D, MaskLats1D)[2]
    IN  {<<MaskLons1D, MaskLats1D>>,
         <<lons2d, lats2d>>,
         <<MaskLons1D, lats2d>>,
         <<lons2d, MaskLats1D>>,
         <<MaskLats1D, lats2d>>,
         <<lons2d, MaskLons1D>>,
         <<lons2d, [shape |-> <<3, 2>>, flat |-> <<0, 0, 6, 6, 12, 12>>]>>,
         <<[shape |-> <<1, 2, 3>>, flat |-> lons2d.flat], lats2d>>,
         <<lons2d, [shape |-> <<1, 2, 3>>, flat |-> lats2d.flat]>>,
         <<[shape |-> <<2, 3>>, flat |-> <<0, 6, 12, 1, 7, 13>>],
           [shape |-> <<2, 3>>, flat |-> <<0, 1, 2, 6, 7, 8>>]>>,
         <<[shape |-> <<3, 3>>, flat |-> <<-135, 180, 135, -90, 0, 90, -45, 0, 45>>],
           [shape |-> <<3, 3>>, flat |-> <<80, 85, 80, 85, 90, 85, 80, 85, 80>>]>>}

\* (lon_min, lon_max, lat_min, lat_max): a corner of the regular grid; the
\* whole sphere; a box that holds no point of any grid; the ring of
\* latitudes 78 to 82; two columns of the upper rows; a box with
\* lon_min > lon_max
MaskExtents ==
    {<<0, 6, 0, 6>>, <<-180, 180, -90, 90>>, <<125, 130, 30, 35>>,
     <<-180, 180, 78, 82>>, <<6, 12, 6, 8>>, <<7, 5, 0, 6>>}

MaskCalls == {[lons |-> g[1], lats |-> g[2], extent |-> e] : g \in MaskGrids, e \in MaskExtents}

VARIABLES
    mask_args,           \* the arguments lons, lats, extent
    mask_pc,             \* the step of get_spatial_mask that runs next
    mask_lons_data,      \* the local lons_data
    mask_lats_data,      \* the local lats_data
    region_mask,         \* the local mask
    x_indices, y_indices, x_slice, y_slice,
    mask_warning,        \* whether the "no grid point" warning was printed
    mask_error           \* the exception the call ended with

mask_vars == <<mask_args, mask_pc, mask_lons_data, mask_lats_data, region_mask, x_indices,
               y_indices, x_slice, y_slice, mask_warning, mask_error>>

NoArray == [shape |-> <<>>, flat |-> <<>>]
NoSlice == [start |-> -1, stop |-> -1]
NoMaskError == [type |-> "", at |-> ""]

\* the locals of a call that has not started
MaskLocalsUnset ==
    /\ mask_lons_data = NoArray /\ mask_lats_data = NoArray
    /\ region_mask = NoArray
    /\ x_indices = <<>> /\ y_indices = <<>>
    /\ x_slice = NoSlice /\ y_slice = NoSlice
    /\ mask_warning = FALSE
    /\ mask_error = NoMaskError

\* get_spatial_mask is not running
MaskIdle ==
    /\ mask_args = <<>>
    /\ mask_pc = "idle"
    /\ MaskLocalsUnset

(***************************************************************************)
(* analyze_cases (src/ana_events_to_case.py): the pandas operations it     *)
(* calls, its arguments and its state. A DataFrame is the record of its    *)
(* columns, each a sequence with one entry per row.                        *)
(***************************************************************************)
\* the longest list of events a call is given
MaxEvents == 3

\* the fields of a time code YYYYMMDDHH read as by str(time10)[a:b]
CodeYear(time10) == time10 \div 1000000
CodeMonth(time10) == (time10 \div 10000) % 100
CodeDay(time10) == (time10 \div 100) % 100
CodeHour(time10) == time10 % 100

\* datetime(year, month, day, hour) raises ValueError; hour 24 is taken as
\* hour 0 of the day after
ConvertRaises(time10) ==
    \/ CodeYear(time10) < 1
    \/ CodeMonth(time10) \notin 1..12
    \/ CodeDay(time10) < 1
    \/ (CodeMonth(time10) \in 1..12
           /\ CodeDay(time10) > DaysInMonth(CodeYear(time10), CodeMonth(time10)))
    \/ CodeHour(time10) > 24

convert_to_datetime(time10) ==
    LET midnight == [year |-> CodeYear(time10), month |-> CodeMonth(time10),
                     day |-> CodeDay(time10), hour |-> 0]
    IN  IF CodeHour(time10) = 24
        THEN PlusHours(midnight, 24)
        ELSE [midnight EXCEPT !.hour = CodeHour(time10)]

\* the orders of rows df.sort_values('datetime') may return: every
\* permutation that puts the datetimes in non-decreasing order (the default
\* sort is not stable, rows of equal datetime come in either order)
SortedOrders(datetimes) ==
    LET n == Len(datetimes)
    IN  {p \in [1..n -> 1..n] :
            /\ \A i, j \in 1..n : i # j => p[i] # p[j]
            /\ \A i \in 1..(n - 1) : Hours(datetimes[p[i]]) <= Hours(datetimes[p[i + 1]])}

\* Series.diff().dt.total_seconds() / 3600: NaN in the first row, then the
\* hours from the row before
DiffHours(datetimes) ==
    [i \in 1..Len(datetimes) |->
        IF i = 1 THEN NaN ELSE Hours(datetimes[i]) - Hours(datetimes[i - 1])]

\* fault variant of CaseBreaks: a gap equal to the threshold starts a case
CaseBreaksAtThreshold(diffs, time_threshold) ==
    [i \in 1..Len(diffs) |-> i = 1 \/ (~IsNaN(diffs[i]) /\ diffs[i] >= time_threshold)]

\* case_breaks: the rows whose gap exceeds the threshold (a comparison with
\* NaN is False), and the first row
CaseBreaks(diffs, time_threshold) ==
    [i \in 1..Len(diffs) |-> i = 1 \/ (~IsNaN(diffs[i]) /\ diffs[i] > time_threshold)]

\* Series.cumsum() of a boolean column
RECURSIVE Cumsum(_, _)
Cumsum(b, i) == IF i = 0 THEN 0 ELSE Cumsum(b, i - 1) + (IF b[i] THEN 1 ELSE 0)
CaseIds(breaks) == [i \in 1..Len(breaks) |-> Cumsum(breaks, i)]

Max(S) == CHOOSE x \in S : \A y \in S : y <= x

\* the entry of case_summary for one case_id
CaseRecord(df, case_id, time_threshold) ==
    LET rows == {i \in 1..Len(df.case_id) : df.case_id[i] = case_id}
        first_hour == Min({Hours(df.datetime[i]) : i \in rows})
        last_hour == Max({Hours(df.datetime[i]) : i \in rows})
    IN  [case_id |-> case_id,
         start_time |-> DatetimeOf(first_hour),
         end_time |-> DatetimeOf(last_hour),
         start_time10 |-> Min({df.time10[i] : i \in rows}),
         end_time10 |-> Max({df.time10[i] : i \in rows}),
         duration_steps |-> Cardinality(rows),
         duration_hours |-> (last_hour - first_hour) + time_threshold]

\* the time codes of the events: six hours apart, a code with hour 24 and
\* the code of the same hour written as hour 0 of the next day, a later
\* event, and a code that is no time
EventCodes == {2025010100, 2025010106, 2025010112, 2025010124, 2025010200, 2025010218,
               2025010125}

\* the column time10 of the frame read from the file, in the order of the file
EventLists == UNION {[1..n -> EventCodes] : n \in 1..MaxEvents}

\* -t: the threshold in hours, the default 6 and 12
TimeThresholds == {6, 12}

VARIABLES
    case_args,           \* the arguments: the column time10 and time_threshold
    case_pc,             \* the step of analyze_cases that runs next
    frame,               \* the local df, by column
    case_summary,
    case_next,           \* the case_id the loop over the cases handles next
    case_error           \* the exception the call ended with

case_vars == <<case_args, case_pc, frame, case_summary, case_next, case_error>>

NoFrame == [time10 |-> <<>>, datetime |-> <<>>, time_diff_hours |-> <<>>, case_id |-> <<>>]

\* analyze_cases is not running
CasesIdle ==
    /\ case_args = <<>>
    /\ case_pc = "idle"
    /\ frame = NoFrame
    /\ case_summary = <<>>
    /\ case_next = 0
    /\ case_error = ""

(***************************************************************************)
(* The state of one call of custom_cross_section.                          *)
(***************************************************************************)
VARIABLES
    args,                \* the arguments, as the caller holds them
    pc,                  \* the block of the body that runs next
    lats_path, lons_path,
    orientation_angle, direction_desc,
    distances_km, point_orientations,
    grid_points, path_points,
    spatial_mask,
    n_other, data_reshaped, points_filtered,
    result, idx,
    warnings,            \* the slices the "no valid data" warning was printed for
    calls,               \* the calls of griddata so far, in order
    error,               \* the exception the call ended with
    cross_data,          \* the DataArray the call returned
    keep_attrs,          \* whether the installed xarray keeps attrs in arithmetic
    n_calls,             \* the number of the running call of the process
    first_outcome        \* what the first call of the process ended with

vars == <<args, pc, lats_path, lons_path, orientation_angle, direction_desc,
          distances_km, point_orientations, grid_points, path_points, spatial_mask,
          n_other, data_reshaped, points_filtered, result, idx, warnings, calls,
          error, cross_data, keep_attrs, n_calls, first_outcome, time_vars, mask_vars,
          case_vars>>

\* what no action of a call touches: the library and the process around it
process_vars == <<keep_attrs, n_calls, first_outcome, time_vars, mask_vars, case_vars>>

NoError == [type |-> "", at |-> "", msg |-> <<>>]
NoData == [dims |-> <<>>, shape |-> <<>>, flat |-> <<>>, coords |-> {}, attrs |-> <<>>,
           units |-> ""]

\* has_units: the field wraps a pint Quantity
HasUnits(data) == data.units # ""

\* what the first call of a process has not ended with yet
NoOutcome == [pc |-> "", error |-> NoError, cross_data |-> NoData]

\* the state at the entry of the first call a process makes, the call being
\* one of the set given
InitOf(given) ==
    /\ args \in given
    /\ keep_attrs \in (IF HasUnits(args.data) THEN BOOLEAN ELSE {FALSE})
    /\ n_calls = 1
    /\ first_outcome = NoOutcome
    /\ TimeIdle
    /\ MaskIdle
    /\ CasesIdle
    /\ pc = "start"
    /\ lats_path = <<>> /\ lons_path = <<>>
    /\ orientation_angle = -1 /\ direction_desc = ""
    /\ distances_km = <<>> /\ point_orientations = <<>>
    /\ grid_points = <<>> /\ path_points = <<>>
    /\ spatial_mask = <<>>
    /\ n_other = -1 /\ data_reshaped = <<>> /\ points_filtered = <<>>
    /\ result = <<>> /\ idx = -1
    /\ warnings = {}
    /\ calls = <<>>
    /\ error = NoError
    /\ cross_data = NoData

Init == InitOf(Calls)

\* the call ends with an exception
Raise(type, at, msg) ==
    /\ pc' = "raised"
    /\ error' = [type |-> type, at |-> at, msg |-> msg]

(***************************************************************************)
(* lines 44-46: the path, linear in (lat, lon)                             *)
(***************************************************************************)
BuildPath ==
    /\ pc = "start"
    /\ lats_path' = Linspace(args.start[1], args.end[1], args.steps)
    /\ lons_path' = Linspace(args.start[2], args.end[2], args.steps)
    /\ pc' = "orientation"
    /\ UNCHANGED <<process_vars, args, orientation_angle, direction_desc, distances_km,
                   point_orientations, grid_points, path_points, spatial_mask, n_other,
                   data_reshaped, points_filtered, result, idx, warnings, calls, error,
                   cross_data>>

(***************************************************************************)
(* lines 140-166: the orientation function, the overall orientation and    *)
(* its compass octant                                                      *)
(***************************************************************************)
\* fault variant of ValidOrientationMethods: no check, the else branch takes
\* every other string
AnyOrientationMethod == OrientationMethods

ValidOrientationMethods == {"spherical", "cartesian"}

OrientationError ==
    /\ pc = "orientation"
    /\ args.orientation_method \notin ValidOrientationMethods
    /\ Raise("ValueError", "orientation_method",
             <<"orientation_method", args.orientation_method, "spherical", "cartesian">>)
    /\ UNCHANGED <<process_vars, args, lats_path, lons_path, orientation_angle, direction_desc,
                   distances_km, point_orientations, grid_points, path_points,
                   spatial_mask, n_other, data_reshaped, points_filtered, result, idx,
                   warnings, calls, cross_data>>

SelectOrientation ==
    /\ pc = "orientation"
    /\ args.orientation_method \in ValidOrientationMethods
    /\ LET angle == calculate_orientation_angle(args.orientation_method,
                        args.start[1], args.start[2], args.end[1], args.end[2],
                        PairHair(args.hair, args.steps, 1, args.steps))
       IN  /\ orientation_angle' = angle
           /\ direction_desc' = DirectionDesc(angle)
    /\ pc' = "metrics"
    /\ UNCHANGED <<process_vars, args, lats_path, lons_path, distances_km, point_orientations,
                   grid_points, path_points, spatial_mask, n_other, data_reshaped,
                   points_filtered, result, idx, warnings, calls, error, cross_data>>

(***************************************************************************)
(* lines 170-208: cumulative distance and local orientation of every path  *)
(* point                                                                   *)
(***************************************************************************)
PathMetrics ==
    /\ pc = "metrics"
    /\ distances_km' = DistancesKm(lats_path, lons_path, args.steps)
    /\ point_orientations' =
           PointOrientations(args.orientation_method, lats_path, lons_path, args.steps,
                             args.hair)
    /\ pc' = "grid"
    /\ UNCHANGED <<process_vars, args, lats_path, lons_path, orientation_angle, direction_desc,
                   grid_points, path_points, spatial_mask, n_other, data_reshaped,
                   points_filtered, result, idx, warnings, calls, error, cross_data>>

(***************************************************************************)
(* lines 210-217: the grid points and the path points as (lat, lon) rows   *)
(***************************************************************************)
GridPointsError ==
    /\ pc = "grid"
    /\ ColumnStackRaises(Ravel(args.lats), Ravel(args.lons))
    /\ Raise("ValueError", "column_stack", <<"all the input array dimensions">>)
    /\ UNCHANGED <<process_vars, args, lats_path, lons_path, orientation_angle, direction_desc,
                   distances_km, point_orientations, grid_points, path_points,
                   spatial_mask, n_other, data_reshaped, points_filtered, result, idx,
                   warnings, calls, cross_data>>

GridPoints ==
    /\ pc = "grid"
    /\ ~ColumnStackRaises(Ravel(args.lats), Ravel(args.lons))
    /\ grid_points' = ColumnStack(Ravel(args.lats), Ravel(args.lons))
    /\ path_points' = ColumnStack(lats_path, lons_path)
    /\ pc' = "mask"
    /\ UNCHANGED <<process_vars, args, lats_path, lons_path, orientation_angle, direction_desc,
                   distances_km, point_orientations, spatial_mask, n_other,
                   data_reshaped, points_filtered, result, idx, warnings, calls, error,
                   cross_data>>

(***************************************************************************)
(* lines 219-232: the grid points within buffer_km of the path             *)
(***************************************************************************)
DistancesToPath(gp, pp) ==
    LET distances_matrix ==
            haversine_distance_vectorized([i \in 1..Len(gp) |-> gp[i][1]],
                                          [i \in 1..Len(gp) |-> gp[i][2]],
                                          [j \in 1..Len(pp) |-> pp[j][1]],
                                          [j \in 1..Len(pp) |-> pp[j][2]])
    IN  [i \in 1..Len(gp) |-> Min({distances_matrix[j][i] : j \in 1..Len(pp)})]

\* fault variant of SpatialMaskOf: the comparison the wrong way round
SpatialMaskOutside(gp, pp, buffer_km) ==
    LET distances_to_path == DistancesToPath(gp, pp)
    IN  [i \in 1..Len(gp) |-> distances_to_path[i] > buffer_km]

\* fault variant of SpatialMaskOf: a band around the distance buffer_km
SpatialMaskBand(gp, pp, buffer_km) ==
    LET distances_to_path == DistancesToPath(gp, pp)
    IN  [i \in 1..Len(gp) |-> Abs(distances_to_path[i] - buffer_km) <= 700]

\* fault variant of SpatialMaskOf: the boundary left out
SpatialMaskStrict(gp, pp, buffer_km) ==
    LET distances_to_path == DistancesToPath(gp, pp)
    IN  [i \in 1..Len(gp) |-> distances_to_path[i] < buffer_km]

SpatialMaskOf(gp, pp, buffer_km) ==
    LET distances_to_path == DistancesToPath(gp, pp)
    IN  [i \in 1..Len(gp) |-> distances_to_path[i] <= buffer_km]

SpatialMask ==
    /\ pc = "mask"
    /\ spatial_mask' = SpatialMaskOf(grid_points, path_points, args.buffer_km)
    /\ pc' = "reshape"
    /\ UNCHANGED <<process_vars, args, lats_path, lons_path, orientation_angle, direction_desc,
                   distances_km, point_orientations, grid_points, path_points, n_other,
                   data_reshaped, points_filtered, result, idx, warnings, calls, error,
                   cross_data>>

(***************************************************************************)
(* lines 234-264: the field as (n_other, n_spatial), the result array and  *)
(* the grid points in the buffer                                           *)
(***************************************************************************)
\* fault variant of OtherShape: the leading lengths in reverse order
RECURSIVE Reverse(_)
Reverse(s) == IF s = <<>> THEN <<>> ELSE Reverse(Tail(s)) \o <<Head(s)>>
OtherShapeReversed(data) == Reverse(SubSeq(data.shape, 1, Len(data.shape) - 2))

\* the shape of the dimensions before the two trailing spatial ones
OtherShape(data) == SubSeq(data.shape, 1, Len(data.shape) - 2)
OtherDims(data) == SubSeq(data.dims, 1, Len(data.dims) - 2)

NOther(data) == IF Len(OtherDims(data)) > 0 THEN Prod(OtherShape(data)) ELSE 1

DataReshaped(data) == Reshape2D(data.flat, NOther(data))

Reshape ==
    /\ pc = "reshape"
    /\ n_other' = NOther(args.data)
    /\ data_reshaped' = DataReshaped(args.data)
    /\ result' = [i \in 1..NOther(args.data) |-> [k \in 1..args.steps |-> 0]]
    /\ points_filtered' = BoolIndex(grid_points, spatial_mask)
    /\ idx' = 0
    /\ pc' = "loop"
    /\ UNCHANGED <<process_vars, args, lats_path, lons_path, orientation_angle, direction_desc,
                   distances_km, point_orientations, grid_points, path_points,
                   spatial_mask, warnings, calls, error, cross_data>>

(***************************************************************************)
(* lines 266-286: one pass of the loop over the slices                     *)
(***************************************************************************)
\* values[spatial_mask]
ValuesFiltered(values, mask) == BoolIndex(values, mask)

\* ~np.isnan(values_filtered)
MaskValid(values_filtered) ==
    [i \in 1..Len(values_filtered) |-> ~IsNaN(values_filtered[i])]

\* fault variant of PointsValid: as many points as there are valid values,
\* taken from the head of points_filtered
PointsValidFromHead(pf, values_filtered) ==
    SubSeq(pf, 1, Len(BoolIndex(values_filtered, MaskValid(values_filtered))))

PointsValid(pf, values_filtered) == BoolIndex(pf, MaskValid(values_filtered))
ValuesValid(values_filtered) == BoolIndex(values_filtered, MaskValid(values_filtered))

\* the row of result the slice `values` gets when griddata returns
SliceRow(values, mask, pf, xi, method) ==
    LET values_filtered == ValuesFiltered(values, mask)
    IN  IF Len(ValuesValid(values_filtered)) = 0
        THEN [k \in 1..Len(xi) |-> NaN]
        ELSE Griddata(PointsValid(pf, values_filtered), ValuesValid(values_filtered),
                      xi, method).row

\* values_filtered = values[spatial_mask] raises
SliceIndexError ==
    /\ pc = "loop"
    /\ idx < n_other
    /\ BoolIndexRaises(data_reshaped[idx + 1], spatial_mask)
    /\ Raise("IndexError", "values[spatial_mask]", <<"boolean index did not match">>)
    /\ UNCHANGED <<process_vars, args, lats_path, lons_path, orientation_angle, direction_desc,
                   distances_km, point_orientations, grid_points, path_points,
                   spatial_mask, n_other, data_reshaped, points_filtered, result, idx,
                   warnings, calls, cross_data>>

\* fault variant of SliceEmpty: break instead of continue
SliceEmptyBreak ==
    /\ pc = "loop"
    /\ idx < n_other
    /\ ~BoolIndexRaises(data_reshaped[idx + 1], spatial_mask)
    /\ Len(ValuesValid(ValuesFiltered(data_reshaped[idx + 1], spatial_mask))) = 0
    /\ warnings' = warnings \cup {idx}
    /\ result' = [result EXCEPT ![idx + 1] = [k \in 1..args.steps |-> NaN]]
    /\ idx' = n_other
    /\ UNCHANGED <<process_vars, args, pc, lats_path, lons_path, orientation_angle, direction_desc,
                   distances_km, point_orientations, grid_points, path_points,
                   spatial_mask, n_other, data_reshaped, points_filtered, calls, error,
                   cross_data>>

\* fault variant of SliceEmpty: the row keeps the zeros of np.zeros
SliceEmptyKeepsZeros ==
    /\ pc = "loop"
    /\ idx < n_other
    /\ ~BoolIndexRaises(data_reshaped[idx + 1], spatial_mask)
    /\ Len(ValuesValid(ValuesFiltered(data_reshaped[idx + 1], spatial_mask))) = 0
    /\ warnings' = warnings \cup {idx}
    /\ idx' = idx + 1
    /\ UNCHANGED <<process_vars, args, pc, lats_path, lons_path, orientation_angle, direction_desc,
                   distances_km, point_orientations, grid_points, path_points,
                   spatial_mask, n_other, data_reshaped, points_filtered, result, calls,
                   error, cross_data>>

\* no valid point: the warning, a row of NaN, and on to the next slice
SliceEmpty ==
    /\ pc = "loop"
    /\ idx < n_other
    /\ ~BoolIndexRaises(data_reshaped[idx + 1], spatial_mask)
    /\ Len(ValuesValid(ValuesFiltered(data_reshaped[idx + 1], spatial_mask))) = 0
    /\ warnings' = warnings \cup {idx}
    /\ result' = [result EXCEPT ![idx + 1] = [k \in 1..args.steps |-> NaN]]
    /\ idx' = idx + 1
    /\ UNCHANGED <<process_vars, args, pc, lats_path, lons_path, orientation_angle, direction_desc,
                   distances_km, point_orientations, grid_points, path_points,
                   spatial_mask, n_other, data_reshaped, points_filtered, calls, error,
                   cross_data>>

\* the call of griddata the slice idx makes
GriddataCall(i) ==
    LET values_filtered == ValuesFiltered(data_reshaped[i + 1], spatial_mask)
    IN  [idx    |-> i,
         points |-> PointsValid(points_filtered, values_filtered),
         values |-> ValuesValid(values_filtered),
         xi     |-> path_points,
         method |-> args.method]

SliceInterpolate ==
    /\ pc = "loop"
    /\ idx < n_other
    /\ ~BoolIndexRaises(data_reshaped[idx + 1], spatial_mask)
    /\ LET c == GriddataCall(idx)
           g == Griddata(c.points, c.values, c.xi, c.method)
       IN  /\ Len(c.values) # 0
           /\ g.error = ""
           /\ calls' = Append(calls, c)
           /\ result' = [result EXCEPT ![idx + 1] = g.row]
    /\ idx' = idx + 1
    /\ UNCHANGED <<process_vars, args, pc, lats_path, lons_path, orientation_angle, direction_desc,
                   distances_km, point_orientations, grid_points, path_points,
                   spatial_mask, n_other, data_reshaped, points_filtered, warnings,
                   error, cross_data>>

\* griddata raises: an unknown method, or points Qhull cannot triangulate
SliceInterpolateError ==
    /\ pc = "loop"
    /\ idx < n_other
    /\ ~BoolIndexRaises(data_reshaped[idx + 1], spatial_mask)
    /\ LET c == GriddataCall(idx)
           g == Griddata(c.points, c.values, c.xi, c.method)
       IN  /\ Len(c.values) # 0
           /\ g.error # ""
           /\ calls' = Append(calls, c)
           /\ Raise(g.error, "griddata",
                    IF g.error = "ValueError"
                    THEN <<"Unknown interpolation method", c.method>>
                    ELSE <<"qhull input error">>)
    /\ UNCHANGED <<process_vars, args, lats_path, lons_path, orientation_angle, direction_desc,
                   distances_km, point_orientations, grid_points, path_points,
                   spatial_mask, n_other, data_reshaped, points_filtered, result, idx,
                   warnings, cross_data>>

(***************************************************************************)
(* lines 288-345: the result in the field's leading shape, its coordinates *)
(* and attributes, the unit                                                *)
(***************************************************************************)
\* "{x:.2f}" of a whole number of degrees
Fixed2(x) == [whole |-> x, decimals |-> <<0, 0>>]
FormatPoint(p) == <<Fixed2(p[1]), Fixed2(p[2])>>

\* xr.DataArray(result_reshaped, dims=result_dims, coords=coords, attrs=...)
CrossData ==
    LET other_dims == OtherDims(args.data)
        path_coords ==
            {[name |-> "cross_section_index", dim |-> "cross_section_index",
              values |-> [k \in 1..args.steps |-> k - 1]],
             [name |-> "latitude", dim |-> "cross_section_index", values |-> lats_path],
             [name |-> "longitude", dim |-> "cross_section_index", values |-> lons_path],
             [name |-> "distance_km", dim |-> "cross_section_index",
              values |-> distances_km],
             [name |-> "orientation", dim |-> "cross_section_index",
              values |-> point_orientations]}
    IN  [dims  |-> IF Len(other_dims) > 0
                   THEN other_dims \o <<"cross_section_index">>
                   ELSE <<"cross_section_index">>,
         shape |-> IF Len(other_dims) > 0
                   THEN OtherShape(args.data) \o <<args.steps>>
                   ELSE <<Len(result[1])>>,
         flat  |-> IF Len(other_dims) > 0 THEN Concat(result) ELSE result[1],
         coords |-> IF Len(other_dims) > 0
                    THEN path_coords
                         \cup {c \in args.data.coords : c.name \in Range(other_dims)}
                    ELSE path_coords,
         attrs |-> [cross_section_orientation_deg |-> orientation_angle,
                    cross_section_orientation_method |-> args.orientation_method,
                    cross_section_direction |-> direction_desc,
                    cross_section_start |-> FormatPoint(args.start),
                    cross_section_end |-> FormatPoint(args.end)]
                   @@ args.data.attrs,
         units |-> ""]

\* fault variant of TimesUnits: the product is taken without the unit
TimesUnitsDropsUnit(da, units, keep) == [da EXCEPT !.attrs = IF keep THEN @ ELSE <<>>]

\* cross_data * original_units: the values and coordinates stay and the unit
\* is attached; xarray's arithmetic keeps the attributes only when its
\* keep_attrs option is on, which is the default of the newest releases only
TimesUnits(da, units, keep) ==
    [da EXCEPT !.attrs = IF keep THEN @ ELSE <<>>, !.units = units]

Assemble ==
    /\ pc = "loop"
    /\ idx = n_other
    /\ cross_data' = IF HasUnits(args.data)
                     THEN TimesUnits(CrossData, args.data.units, keep_attrs)
                     ELSE CrossData
    /\ pc' = "done"
    /\ UNCHANGED <<process_vars, args, lats_path, lons_path, orientation_angle, direction_desc,
                   distances_km, point_orientations, grid_points, path_points,
                   spatial_mask, n_other, data_reshaped, points_filtered, result, idx,
                   warnings, calls, error>>

Next ==
    \/ BuildPath
    \/ OrientationError
    \/ SelectOrientation
    \/ PathMetrics
    \/ GridPointsError
    \/ GridPoints
    \/ SpatialMask
    \/ Reshape
    \/ SliceIndexError
    \/ SliceEmpty
    \/ SliceInterpolate
    \/ SliceInterpolateError
    \/ Assemble

Spec == Init /\ [][Next]_vars

(***************************************************************************)
(* Properties.                                                             *)
(***************************************************************************)
\* the field's number of dimensions, its leading shape and its spatial shape
Rank == Len(args.data.shape)
LeadShape == SubSeq(args.data.shape, 1, Rank - 2)
TrailShape == SubSeq(args.data.shape, Rank - 1, Rank)

\* field[ix, :, :] in C order, read element by element
FieldSliceAt(ix) ==
    [j \in 1..(TrailShape[1] * TrailShape[2]) |->
        Elem(args.data, ix \o <<(j - 1) \div TrailShape[2], (j - 1) % TrailShape[2]>>)]

\* output[ix, :], read element by element
OutputRowAt(ix) == [k \in 1..cross_data.shape[Len(cross_data.shape)] |->
                        Elem(cross_data, ix \o <<k - 1>>)]

\* the call has computed the mask and the mask keeps no grid point
NothingRetained == spatial_mask # <<>> /\ \A j \in 1..Len(spatial_mask) : ~spatial_mask[j]

\* slice i (0-based) has no valid point in the buffer
NoValidPoint(i) ==
    /\ Len(data_reshaped[i + 1]) = Len(spatial_mask)
    /\ \A j \in 1..Len(spatial_mask) : spatial_mask[j] => IsNaN(data_reshaped[i + 1][j])

AllNaN(row) == \A k \in 1..Len(row) : IsNaN(row[k])

\* C1: a returned array has the field's leading dimensions, with the same
\* names, order and lengths, followed by the one dimension cross_section_index
\* of length steps in place of the two spatial dimensions; for a 2-D field
\* its shape is (steps,).
C1_ResultShape ==
    pc = "done" =>
        /\ Len(cross_data.dims) = Rank - 1
        /\ Len(cross_data.shape) = Rank - 1
        /\ \A d \in 1..(Rank - 2) :
              /\ cross_data.dims[d] = args.data.dims[d]
              /\ cross_data.shape[d] = args.data.shape[d]
        /\ cross_data.dims[Rank - 1] = "cross_section_index"
        /\ cross_data.shape[Rank - 1] = args.steps
        /\ Len(cross_data.flat) = Prod(cross_data.shape)
        /\ (Rank = 2 => cross_data.shape = <<args.steps>>)

\* a 4-D field whose two leading dimensions differ in length was returned
C1_Witness ==
    /\ pc = "done"
    /\ Rank = 4
    /\ args.data.shape[1] # args.data.shape[2]
    /\ args.steps = MaxSteps

\* C2: flattening the leading dimensions and un-flattening the result is a
\* round trip on indices: for every leading multi-index ix, output[ix, :] is
\* the interpolation of the spatial slice field[ix, :, :].
C2_IndexRoundTrip ==
    pc = "done" =>
        \A ix \in MultiIndices(LeadShape) :
            OutputRowAt(ix) = SliceRow(FieldSliceAt(ix), spatial_mask, points_filtered,
                                       path_points, args.method)

\* a field with leading shape (2, 2) was returned, and the rows of the
\* slices [0, 1] and [1, 0] differ
C2_Witness ==
    /\ pc = "done"
    /\ LeadShape = <<2, 2>>
    /\ OutputRowAt(<<0, 1>>) # OutputRowAt(<<1, 0>>)
    /\ ~AllNaN(OutputRowAt(<<0, 1>>))

\* C3: a slice with no valid source point gets a row of `steps` NaN, the
\* call does not raise on it, and the loop goes on with the next slice.
C3_EmptySliceContinues ==
    [][(pc = "loop" /\ idx < n_other /\ NoValidPoint(idx)) =>
          /\ pc' = "loop"
          /\ idx' = idx + 1
          /\ error' = NoError
          /\ Len(result'[idx + 1]) = args.steps
          /\ AllNaN(result'[idx + 1])
          /\ idx \in warnings'
          /\ \A i \in 1..n_other : i # idx + 1 => result'[i] = result[i]]_vars

\* an empty slice was passed over and a later slice was interpolated
C3_Witness ==
    /\ pc \in {"loop", "done"}
    /\ 0 \in warnings
    /\ AllNaN(result[1])
    /\ Len(calls) > 0
    /\ calls[1].idx > 0

\* the call on the field that holds only the slice `values` returns
SingleSliceReturns(values) ==
    LET values_filtered == ValuesFiltered(values, spatial_mask)
    IN  \/ Len(ValuesValid(values_filtered)) = 0
        \/ Griddata(PointsValid(points_filtered, values_filtered),
                    ValuesValid(values_filtered), path_points, args.method).error = ""

\* C4: the row of a slice depends only on that slice and on the geometry:
\* whenever the call on the field holding only slice k returns a row, the
\* call on the whole field returns that same row for slice k, whatever the
\* other slices hold.
C4_SliceIndependence ==
    (data_reshaped # <<>> /\ \A i \in 1..n_other : Len(data_reshaped[i]) = Len(spatial_mask)) =>
        \A k \in 0..(n_other - 1) :
            SingleSliceReturns(data_reshaped[k + 1]) =>
                /\ pc # "raised"
                /\ (k < idx =>
                       result[k + 1] = SliceRow(data_reshaped[k + 1], spatial_mask,
                                                points_filtered, path_points, args.method))

\* C5: an unknown orientation_method ends the call with a ValueError that
\* names the two valid values, before any distance, mask or interpolation is
\* computed, and nothing is returned.
C5_OrientationMethodError ==
    args.orientation_method \notin {"cartesian", "spherical"} =>
        /\ pc \in {"start", "orientation", "raised"}
        /\ pc = "raised" =>
              /\ error.type = "ValueError"
              /\ {"cartesian", "spherical"} \subseteq Range(error.msg)
        /\ orientation_angle = -1
        /\ distances_km = <<>> /\ point_orientations = <<>>
        /\ grid_points = <<>> /\ spatial_mask = <<>>
        /\ result = <<>> /\ calls = <<>>
        /\ cross_data.dims = <<>>

\* the call was made with an unknown orientation_method and has raised
C5_Witness ==
    /\ pc = "raised"
    /\ args.orientation_method = "polar"
    /\ error.at = "orientation_method"

\* C6: an unknown interpolation method ends the call at once, before any
\* computation, for every input, with an error that names the invalid value
\* and the accepted ones; the call never returns a result.
C6_MethodError ==
    (args.method \notin {"nearest", "linear", "cubic"}
        /\ args.orientation_method \in {"cartesian", "spherical"}) =>
        /\ pc # "done"
        /\ distances_km = <<>> /\ grid_points = <<>> /\ spatial_mask = <<>>
        /\ pc = "raised" =>
              {args.method, "nearest", "linear", "cubic"} \subseteq Range(error.msg)

\* C7: a field whose two trailing dimensions are not the shape of the source
\* grid makes the call fail, also when the two shapes hold the same number
\* of elements; no result is returned.
C7_FieldShapeError ==
    (Len(args.lats.shape) = 2 /\ args.lons.shape = args.lats.shape
        /\ TrailShape # args.lats.shape) =>
        pc # "done"

\* C8: lons and lats of different shapes make the call fail at once, before
\* any mask or interpolation is computed.
C8_CoordShapeError ==
    args.lons.shape # args.lats.shape =>
        /\ pc \in {"start", "orientation", "metrics", "grid", "raised"}
        /\ spatial_mask = <<>>

\* lats[y] and lons[x] broadcast to the shape (ny, nx), as (lat, lon) rows
BroadcastPoints(lats, lons) ==
    [k \in 1..(Len(lats) * Len(lons)) |->
        <<lats[((k - 1) \div Len(lons)) + 1], lons[((k - 1) % Len(lons)) + 1]>>]

\* C9: with 1-D lons of length nx, 1-D lats of length ny and a field whose
\* trailing shape is (ny, nx), the call works on the grid the two broadcast
\* to, and gives what it gives for that 2-D grid.
C9_Coords1D ==
    (Len(args.lats.shape) = 1 /\ Len(args.lons.shape) = 1
        /\ TrailShape = <<args.lats.shape[1], args.lons.shape[1]>>) =>
        /\ error.type \notin {"ValueError", "IndexError"}
        /\ grid_points # <<>> =>
              grid_points = BroadcastPoints(args.lats.flat, args.lons.flat)

\* C10: when the spatial mask keeps no grid point, every slice takes the
\* empty-slice path: griddata is never called, every processed slice has the
\* warning and a row of NaN, and the returned values are all NaN.
C10_NothingRetained ==
    (NothingRetained /\ pc \in {"loop", "done"}) =>
        /\ calls = <<>>
        /\ warnings = 0..(idx - 1)
        /\ \A i \in 1..idx : AllNaN(result[i])
        /\ pc = "done" =>
              /\ warnings = 0..(n_other - 1)
              /\ Len(cross_data.flat) = n_other * args.steps
              /\ AllNaN(cross_data.flat)

\* a field of several slices, one of them without a NaN, was returned from a
\* call whose mask kept no grid point
C10_Witness ==
    /\ pc = "done"
    /\ NothingRetained
    /\ n_other >= 2
    /\ \E i \in 1..n_other : \A j \in 1..Len(data_reshaped[i]) : ~IsNaN(data_reshaped[i][j])


\* the values the call computes for the field `data`, row after row, given
\* the geometry of the running call
RowsOf(data) ==
    Concat([i \in 1..NOther(data) |->
               SliceRow(DataReshaped(data)[i], spatial_mask, points_filtered,
                        path_points, args.method)])

\* C11: a returned array carries the unit of the field, none when the field
\* has none, and its magnitudes are the values computed for the same field
\* without a unit.
C11_UnitKept ==
    pc = "done" =>
        /\ cross_data.units = args.data.units
        /\ cross_data.flat = RowsOf([args.data EXCEPT !.units = ""])

\* a field with a unit was returned with a value that is not NaN
C11_Witness ==
    /\ pc = "done"
    /\ HasUnits(args.data)
    /\ cross_data.units = "kelvin"
    /\ ~AllNaN(cross_data.flat)

\* the scalar metadata of a result
MetadataKeys ==
    {"cross_section_orientation_deg", "cross_section_orientation_method",
     "cross_section_direction", "cross_section_start", "cross_section_end"}

\* C12: a returned array always carries the five scalar metadata entries,
\* start and end formatted with two decimals, whether or not the field has a
\* unit.
C12_ScalarMetadata ==
    pc = "done" =>
        /\ MetadataKeys \subseteq DOMAIN cross_data.attrs
        /\ cross_data.attrs.cross_section_orientation_deg = orientation_angle
        /\ cross_data.attrs.cross_section_orientation_method = args.orientation_method
        /\ cross_data.attrs.cross_section_direction = direction_desc
        /\ cross_data.attrs.cross_section_start = FormatPoint(args.start)
        /\ cross_data.attrs.cross_section_end = FormatPoint(args.end)
        /\ \A p \in {cross_data.attrs.cross_section_start, cross_data.attrs.cross_section_end} :
              \A c \in 1..2 : Len(p[c].decimals) = 2

\* the coordinates of the array da that are named `name`
CoordsNamed(da, name) == {c \in da.coords : c.name = name}
CoordNamed(da, name) == CHOOSE c \in da.coords : c.name = name

\* C13: latitude, longitude, distance_km and orientation each have length
\* steps along cross_section_index; latitude and longitude start at the start
\* point, end at the end point and are linearly spaced between them; the
\* coordinates of the field's leading dimensions are carried over unchanged.
C13_PathCoordinates ==
    pc = "done" =>
        /\ \A name \in {"latitude", "longitude", "distance_km", "orientation"} :
              /\ Cardinality(CoordsNamed(cross_data, name)) = 1
              /\ CoordNamed(cross_data, name).dim = "cross_section_index"
              /\ Len(CoordNamed(cross_data, name).values) = args.steps
        /\ LET latitude  == CoordNamed(cross_data, "latitude").values
               longitude == CoordNamed(cross_data, "longitude").values
           IN  /\ latitude[1] = args.start[1] /\ longitude[1] = args.start[2]
               /\ latitude[args.steps] = args.end[1]
               /\ longitude[args.steps] = args.end[2]
               /\ \A i \in 1..args.steps :
                     /\ (args.steps - 1) * (latitude[i] - args.start[1])
                            = (i - 1) * (args.end[1] - args.start[1])
                     /\ (args.steps - 1) * (longitude[i] - args.start[2])
                            = (i - 1) * (args.end[2] - args.start[2])
        /\ \A d \in 1..(Rank - 2) :
              /\ CoordsNamed(cross_data, args.data.dims[d])
                     = CoordsNamed(args.data, args.data.dims[d])
              /\ Cardinality(CoordsNamed(cross_data, args.data.dims[d])) = 1

\* a field with two leading dimensions and a unit was returned on a path of
\* the largest number of points
C13_Witness ==
    /\ pc = "done"
    /\ Rank = 3
    /\ HasUnits(args.data)
    /\ args.steps = MaxSteps
    /\ args.start # args.end

\* the number of grid points a mask keeps
Retained(mask) == Cardinality({j \in 1..Len(mask) : mask[j]})

\* C14: with buffer_km left at its default, or +infinity, the mask keeps
\* every grid point: the retained count is the size of the grid.
C14_DefaultBufferKeepsAll ==
    (spatial_mask # <<>> /\ args.buffer_km \in {DefaultBuffer, Infinity}) =>
        /\ \A j \in 1..Len(spatial_mask) : spatial_mask[j]
        /\ Len(spatial_mask) = Len(Ravel(args.lats))
        /\ Retained(spatial_mask) = Prod(args.lats.shape)

\* the default buffer on a path far from the grid, and +infinity on a grid of
\* three rows, have both kept grids whole
C14_Witness ==
    /\ pc = "done"
    /\ \/ (args.buffer_km = DefaultBuffer /\ args.start = <<60, 60>>)
       \/ (args.buffer_km = Infinity /\ args.lats.shape = <<3, 2>>
              /\ args.lons.shape = <<3, 2>>)
    /\ Retained(spatial_mask) = Prod(args.lats.shape)

\* C15: for a fixed grid and path the retained set grows with buffer_km:
\* b1 <= b2 implies every point kept with b1 is kept with b2, so the count
\* never decreases; the mask of the call is the one of its own buffer_km.
C15_MaskMonotone ==
    /\ pc = "mask" =>
          \A b1, b2 \in Buffers :
              b1 <= b2 =>
                  LET m1 == SpatialMaskOf(grid_points, path_points, b1)
                      m2 == SpatialMaskOf(grid_points, path_points, b2)
                  IN  /\ \A j \in 1..Len(m1) : m1[j] => m2[j]
                      /\ Retained(m1) <= Retained(m2)
    /\ pc = "reshape" =>
          spatial_mask = SpatialMaskOf(grid_points, path_points, args.buffer_km)

\* a call with a buffer of 700 km on a grid where 0 km keeps fewer points and
\* the default keeps more
C15_Witness ==
    /\ pc = "reshape"
    /\ args.buffer_km = 700
    /\ Retained(SpatialMaskOf(grid_points, path_points, 0)) < Retained(spatial_mask)
    /\ Retained(spatial_mask) < Retained(SpatialMaskOf(grid_points, path_points, DefaultBuffer))
    /\ Retained(SpatialMaskOf(grid_points, path_points, 0)) > 0

(***************************************************************************)
(* A process that calls custom_cross_section twice with the objects it     *)
(* holds: the second call starts with fresh locals, as every Python call   *)
(* does, and with whatever the first call left in its arguments.           *)
(***************************************************************************)
Outcome == [pc |-> pc, error |-> error, cross_data |-> cross_data]

\* fault variant of CallAgain: the first call has written the NaN of its
\* result through the view data.values.reshape(...) into the field
CallAgainOnWrittenField ==
    /\ pc \in {"done", "raised"}
    /\ n_calls = 1
    /\ n_calls' = 2
    /\ first_outcome' = Outcome
    /\ args' = [args EXCEPT !.data.flat = [j \in 1..Len(args.data.flat) |-> NaN]]
    /\ pc' = "start"
    /\ lats_path' = <<>> /\ lons_path' = <<>>
    /\ orientation_angle' = -1 /\ direction_desc' = ""
    /\ distances_km' = <<>> /\ point_orientations' = <<>>
    /\ grid_points' = <<>> /\ path_points' = <<>>
    /\ spatial_mask' = <<>>
    /\ n_other' = -1 /\ data_reshaped' = <<>> /\ points_filtered' = <<>>
    /\ result' = <<>> /\ idx' = -1
    /\ warnings' = {}
    /\ calls' = <<>>
    /\ error' = NoError
    /\ cross_data' = NoData
    /\ UNCHANGED <<keep_attrs, time_vars, mask_vars, case_vars>>

CallAgain ==
    /\ pc \in {"done", "raised"}
    /\ n_calls = 1
    /\ n_calls' = 2
    /\ first_outcome' = Outcome
    /\ pc' = "start"
    /\ lats_path' = <<>> /\ lons_path' = <<>>
    /\ orientation_angle' = -1 /\ direction_desc' = ""
    /\ distances_km' = <<>> /\ point_orientations' = <<>>
    /\ grid_points' = <<>> /\ path_points' = <<>>
    /\ spatial_mask' = <<>>
    /\ n_other' = -1 /\ data_reshaped' = <<>> /\ points_filtered' = <<>>
    /\ result' = <<>> /\ idx' = -1
    /\ warnings' = {}
    /\ calls' = <<>>
    /\ error' = NoError
    /\ cross_data' = NoData
    /\ UNCHANGED <<args, keep_attrs, time_vars, mask_vars, case_vars>>

\* the calls a process repeats: every combination of shapes, and fields with
\* a leading dimension under every orientation method
AgainCalls ==
    ShapeCalls
    \cup {Args(d, p, LonArray(<<2, 3>>), LatArray(<<2, 3>>), st, "nearest", DefaultBuffer, om) :
             d \in Fields({<<2>>}, <<2, 3>>, UnitsSet), p \in Paths, st \in StepsSet,
             om \in OrientationMethods}

InitAgain == InitOf(AgainCalls)

NextAgain ==
    \/ BuildPath
    \/ OrientationError
    \/ SelectOrientation
    \/ PathMetrics
    \/ GridPointsError
    \/ GridPoints
    \/ SpatialMask
    \/ Reshape
    \/ SliceIndexError
    \/ SliceEmpty
    \/ SliceInterpolate
    \/ SliceInterpolateError
    \/ Assemble
    \/ CallAgain

SpecAgain == InitAgain /\ [][NextAgain]_vars

CompassEnds ==
    {<<0, 12>>, <<12, 12>>, <<12, 0>>, <<12, -12>>,
     <<0, -12>>, <<-12, -12>>, <<-12, 0>>, <<-12, 12>>}
CardinalEnds == {<<0, 1>>, <<1, 0>>, <<0, -1>>, <<-1, 0>>}
OctantEnds == {<<5, 12>>, <<-5, 12>>, <<-1, 12>>, <<12, 5>>}

\* a 2-D field without a missing value on the grid of 2 x 3 points
FullField == DataArray(<<>>, <<2, 3>>, <<"full">>, "")

PathCall(start, end, steps, om, hair) ==
    [Args(FullField, <<start, end>>, LonArray(<<2, 3>>), LatArray(<<2, 3>>), steps,
          "nearest", DefaultBuffer, om) EXCEPT !.hair = hair]

PathCalls ==
    {PathCall(<<0, 0>>, e, st, om, 0) :
        e \in CompassEnds \cup {<<0, 0>>}, st \in StepsSet, om \in OrientationMethods}
    \cup {PathCall(<<0, 0>>, e, 2, om, 0) : e \in CardinalEnds, om \in OrientationMethods}
    \cup {PathCall(p[1], p[2], st, om, 0) :
             p \in Paths, st \in StepsSet, om \in OrientationMethods}
    \* start = (0, 0), end = (-1e-15, 12)
    \cup {PathCall(<<0, 0>>, <<0, 12>>, st, om, -1) :
             st \in StepsSet, om \in ValidOrientationMethods}
    \* start = (6.000000000000001, 0), end = (6, 12)
    \cup {PathCall(<<6, 0>>, <<6, 12>>, st, om, -2) :
             st \in StepsSet, om \in ValidOrientationMethods}
    \* ends that give orientations next to the edges of the octants
    \cup {PathCall(<<0, 0>>, e, 2, om, 0) : e \in OctantEnds, om \in ValidOrientationMethods}

\* calls that end in each of the errors, and on an empty slice
EdgeCalls ==
    {Args(DataArray(<<>>, <<2, 3>>, <<pat>>, ""), << <<0, 0>>, <<0, 12>> >>,
          LonArray(lo), LatArray(la), 2, m, DefaultBuffer, "cartesian") :
        pat \in {"nan", "full"}, lo \in {<<2>>, <<2, 3>>}, la \in {<<2>>, <<3>>, <<2, 3>>},
        m \in {"nearest", "quadratic"}}

InitPaths == InitOf(PathCalls \cup EdgeCalls)

SpecPaths == InitPaths /\ [][Next]_vars

\* the orientation of a displacement along one axis, in tenths of a degree
CardinalAngle(dlat, dlon) ==
    IF dlat = 0 THEN (IF dlon > 0 THEN 0 ELSE 1800)
    ELSE (IF dlat > 0 THEN 900 ELSE 2700)

\* C17: from (0, 0), both orientation functions give 0 for a displacement
\* due east, 90 due north, 180 due west and 270 due south.
C17_CardinalPoints ==
    (args.start = <<0, 0>> /\ args.hair = 0 /\ args.end # <<0, 0>>
        /\ (args.end[1] = 0 \/ args.end[2] = 0)) =>
        /\ calculate_orientation_angle_cartesian(0, 0, args.end[1], args.end[2], 0)
               = CardinalAngle(args.end[1], args.end[2])
        /\ calculate_orientation_angle_spherical(0, 0, args.end[1], args.end[2], 0)
               = CardinalAngle(args.end[1], args.end[2])
        /\ orientation_angle # -1 =>
               orientation_angle = CardinalAngle(args.end[1], args.end[2])

\* the spherical function has given 270 for the path from (0, 0) to (-1, 0)
C17_Witness ==
    /\ args.orientation_method = "spherical"
    /\ args.start = <<0, 0>> /\ args.end = <<-1, 0>>
    /\ orientation_angle = 2700

\* 0 <= o < 360, on tenths of a degree
InRange360(o) == 0 <= o /\ o < 3600

\* C18: every orientation produced, the overall one of the metadata and the
\* one of every path point, under both methods, is in [0, 360): never
\* negative and never 360.
C18_OrientationRange ==
    /\ orientation_angle # -1 => InRange360(orientation_angle)
    /\ \A i \in 1..Len(point_orientations) : InRange360(point_orientations[i])
    /\ (pc = "done" /\ MetadataKeys \subseteq DOMAIN cross_data.attrs) =>
          InRange360(cross_data.attrs.cross_section_orientation_deg)
    /\ pc = "done" =>
          \A i \in 1..args.steps :
              InRange360(CoordNamed(cross_data, "orientation").values[i])

\* C19: the distance matrix of n source points and m target points has the
\* shape (m, n), and its entry [j, i] is the scalar distance between target
\* point j and source point i.
C19_MatrixIsScalar ==
    pc = "mask" =>
        LET n == Len(grid_points)
            m == Len(path_points)
            distances_matrix ==
                haversine_distance_vectorized([i \in 1..n |-> grid_points[i][1]],
                                              [i \in 1..n |-> grid_points[i][2]],
                                              [j \in 1..m |-> path_points[j][1]],
                                              [j \in 1..m |-> path_points[j][2]])
        IN  /\ Len(distances_matrix) = m
            /\ \A j \in 1..m :
                  /\ Len(distances_matrix[j]) = n
                  /\ \A i \in 1..n :
                        distances_matrix[j][i]
                            = haversine_distance(path_points[j][1], path_points[j][2],
                                                 grid_points[i][1], grid_points[i][2])

\* six source points and the largest number of target points, on a path
\* that leaves the grid to the south-east
C19_Witness ==
    /\ pc = "mask"
    /\ Len(grid_points) = 6
    /\ Len(path_points) = MaxSteps
    /\ args.end = <<-12, 12>>
    /\ haversine_distance(path_points[MaxSteps][1], path_points[MaxSteps][2],
                          grid_points[4][1], grid_points[4][2]) > 1000

(***************************************************************************)
(* generate_time_codes, src/generate_time10_list.py lines 17-44.           *)
(***************************************************************************)
\* custom_cross_section is not running
CrossSectionIdle ==
    /\ args = <<>>
    /\ keep_attrs = FALSE
    /\ n_calls = 0
    /\ first_outcome = NoOutcome
    /\ pc = "idle"
    /\ lats_path = <<>> /\ lons_path = <<>>
    /\ orientation_angle = -1 /\ direction_desc = ""
    /\ distances_km = <<>> /\ point_orientations = <<>>
    /\ grid_points = <<>> /\ path_points = <<>>
    /\ spatial_mask = <<>>
    /\ n_other = -1 /\ data_reshaped = <<>> /\ points_filtered = <<>>
    /\ result = <<>> /\ idx = -1
    /\ warnings = {}
    /\ calls = <<>>
    /\ error = NoError
    /\ cross_data = NoData

cross_section_vars ==
    <<args, pc, lats_path, lons_path, orientation_angle, direction_desc, distances_km,
      point_orientations, grid_points, path_points, spatial_mask, n_other,
      data_reshaped, points_filtered, result, idx, warnings, calls, error, cross_data,
      keep_attrs, n_calls, first_outcome>>

InitTime ==
    /\ CrossSectionIdle
    /\ MaskIdle
    /\ CasesIdle
    /\ start_time \in StartTimes
    /\ end_time \in EndTimes
    /\ interval \in Intervals
    /\ output_format \in Formats
    /\ time_pc = "strptime"
    /\ start_dt = NoDatetime /\ end_dt = NoDatetime /\ current_dt = NoDatetime
    /\ times = <<>>
    /\ time_error = ""

\* lines 29-32, one of the two strptime raising
TimeParseError ==
    /\ time_pc = "strptime"
    /\ StrptimeRaises(start_time) \/ StrptimeRaises(end_time)
    /\ time_pc' = "raised"
    /\ time_error' = "ValueError"
    /\ UNCHANGED <<start_time, end_time, interval, output_format, start_dt, end_dt,
                   current_dt, times, cross_section_vars, mask_vars, case_vars>>

\* lines 29-32
TimeParse ==
    /\ time_pc = "strptime"
    /\ ~StrptimeRaises(start_time) /\ ~StrptimeRaises(end_time)
    /\ start_dt' = Strptime(start_time)
    /\ end_dt' = Strptime(end_time)
    /\ times' = <<>>
    /\ current_dt' = Strptime(start_time)
    /\ time_pc' = "while"
    /\ UNCHANGED <<start_time, end_time, interval, output_format, time_error,
                   cross_section_vars, mask_vars, case_vars>>

\* lines 34-43, one pass of the loop (the model stops a loop at MaxTimes codes)
TimeAppend ==
    /\ time_pc = "while"
    /\ Hours(current_dt) <= Hours(end_dt)
    /\ output_format \in OutputFormats
    /\ Len(times) < MaxTimes
    /\ times' = Append(times, Strftime(current_dt, output_format))
    /\ current_dt' = PlusHours(current_dt, interval)
    /\ UNCHANGED <<start_time, end_time, interval, output_format, time_pc, start_dt,
                   end_dt, time_error, cross_section_vars, mask_vars, case_vars>>

\* lines 41-42: the else branch of a pass of the loop
TimeFormatError ==
    /\ time_pc = "while"
    /\ Hours(current_dt) <= Hours(end_dt)
    /\ output_format \notin OutputFormats
    /\ time_pc' = "raised"
    /\ time_error' = "ValueError"
    /\ UNCHANGED <<start_time, end_time, interval, output_format, start_dt, end_dt,
                   current_dt, times, cross_section_vars, mask_vars, case_vars>>

\* line 44, when the loop condition fails
TimeReturn ==
    /\ time_pc = "while"
    /\ ~(Hours(current_dt) <= Hours(end_dt))
    /\ time_pc' = "done"
    /\ UNCHANGED <<start_time, end_time, interval, output_format, start_dt, end_dt,
                   current_dt, times, time_error, cross_section_vars, mask_vars, case_vars>>

NextTime ==
    \/ TimeParseError
    \/ TimeParse
    \/ TimeAppend
    \/ TimeFormatError
    \/ TimeReturn

SpecTime == InitTime /\ [][NextTime]_vars

\* the times from `from` down to `to`, `step` hours apart, in the format fmt
Descending(from, to, step, fmt) ==
    [k \in 1..(((Hours(from) - Hours(to)) \div step) + 1) |->
        Strftime(DatetimeOf(Hours(from) - (k - 1) * step), fmt)]

\* C20: with start_time later than end_time the call returns the times from
\* start_time down to end_time, in descending order: 2025072903, 2025072902,
\* 2025072901, 2025072900 for 2025072903 to 2025072900 with interval 1.
C20_ReverseOrder ==
    (time_pc = "done" /\ Hours(start_dt) > Hours(end_dt) /\ interval >= 1
        /\ output_format \in OutputFormats) =>
        /\ Len(times) = ((Hours(start_dt) - Hours(end_dt)) \div interval) + 1
        /\ times = Descending(start_dt, end_dt, interval, output_format)

(***************************************************************************)
(* The path builder: cumulative distance, local orientation, octant.       *)
(***************************************************************************)
\* C23: the cumulative distance is 0 at point 0 and, at every later point,
\* the distance of the point before plus the great-circle distance of the
\* segment between the two; it never decreases along the path and is 0 at
\* every point when start = end; the result carries it as distance_km.
C23_CumulativeDistance ==
    distances_km # <<>> =>
        /\ Len(distances_km) = args.steps
        /\ distances_km[1] = 0
        /\ \A i \in 2..args.steps :
              /\ distances_km[i]
                     = distances_km[i - 1]
                       + haversine_distance(lats_path[i - 1], lons_path[i - 1],
                                            lats_path[i], lons_path[i])
              /\ distances_km[i - 1] <= distances_km[i]
        /\ args.start = args.end => \A i \in 1..args.steps : distances_km[i] = 0
        /\ pc = "done" => CoordNamed(cross_data, "distance_km").values = distances_km

\* a path of three points to the north-east has been measured: the second
\* segment has added to the length of the first
C23_Witness ==
    /\ pc = "done"
    /\ args.steps = 3
    /\ args.end = <<12, 12>>
    /\ distances_km[2] > 0
    /\ distances_km[3] > distances_km[2] + 900

\* the orientation from point i to point j of the path of the call, the
\* points counted from 0 as the code counts them
OrientationBetween(i, j) ==
    calculate_orientation_angle(args.orientation_method,
                                lats_path[i + 1], lons_path[i + 1],
                                lats_path[j + 1], lons_path[j + 1],
                                PairHair(args.hair, args.steps, i + 1, j + 1))

\* the indices of the path that the orientation of point i reads
IndicesRead(i) ==
    IF i = 0 THEN {0, 1}
    ELSE IF i = args.steps - 1 THEN {args.steps - 2, args.steps - 1}
    ELSE {i - 1, i + 1}

\* C24: for steps >= 2, point 0 has the orientation from point 0 to point 1,
\* point steps-1 the one from point steps-2 to point steps-1, and every
\* interior point i the one from point i-1 to point i+1; with steps = 2 both
\* points have the orientation from point 0 to point 1, and no index outside
\* 0..steps-1 is read.
C24_PointOrientation ==
    point_orientations # <<>> =>
        /\ args.steps >= 2
        /\ Len(point_orientations) = args.steps
        /\ point_orientations[1] = OrientationBetween(0, 1)
        /\ point_orientations[args.steps]
               = OrientationBetween(args.steps - 2, args.steps - 1)
        /\ \A i \in 1..(args.steps - 2) :
              point_orientations[i + 1] = OrientationBetween(i - 1, i + 1)
        /\ args.steps = 2 =>
              point_orientations = <<OrientationBetween(0, 1), OrientationBetween(0, 1)>>
        /\ \A i \in 0..(args.steps - 1) : IndicesRead(i) \subseteq 0..(args.steps - 1)
        /\ pc = "done" =>
              CoordNamed(cross_data, "orientation").values = point_orientations

\* a spherical path of three points to the north-east: the centred
\* difference of the interior point is neither the forward difference of
\* point 0 nor the backward difference of point 2
C24_Witness ==
    /\ pc = "done"
    /\ args.steps = 3
    /\ args.orientation_method = "spherical"
    /\ args.end = <<12, 12>>
    /\ point_orientations[2] # point_orientations[1]
    /\ point_orientations[2] # point_orientations[3]

\* the eight labels, counter-clockwise from east
Octants == <<"E", "NE", "N", "NW", "W", "SW", "S", "SE">>

\* the label of the bin [c - 22.5, c + 22.5) that holds o, for the centres
\* c = 0, 45, ..., 315 and o in [0, 360), on tenths of a degree
OctantOf(o) == Octants[(((o + 225) \div 450) % 8) + 1]

\* C25: the compass label is a total function of an overall orientation in
\* [0, 360): one of the eight labels, by half-open bins of 45 degrees centred
\* on 0, 45, ..., 315, with [337.5, 360) and [0, 22.5) both east, so that
\* 22.5 is NE, 67.5 is N and 337.5 is E; the result carries the label of the
\* orientation it carries.
C25_CompassOctant ==
    /\ \A o \in 0..3599 :
          /\ DirectionDesc(o) \in Range(Octants)
          /\ DirectionDesc(o) = OctantOf(o)
    /\ DirectionDesc(225) = "NE" /\ DirectionDesc(675) = "N" /\ DirectionDesc(3375) = "E"
    /\ DirectionDesc(224) = "E" /\ DirectionDesc(3374) = "SE"
    /\ (orientation_angle # -1 /\ InRange360(orientation_angle)) =>
          direction_desc = OctantOf(orientation_angle)
    /\ (pc = "done" /\ MetadataKeys \subseteq DOMAIN cross_data.attrs
           /\ InRange360(cross_data.attrs.cross_section_orientation_deg)) =>
          cross_data.attrs.cross_section_direction
              = OctantOf(cross_data.attrs.cross_section_orientation_deg)

\* a path a little south of east, in the part [337.5, 360) of the east bin,
\* has been labelled
C25_Witness ==
    /\ pc = "done"
    /\ args.end = <<-1, 12>>
    /\ orientation_angle >= 3375 /\ orientation_angle < 3600
    /\ direction_desc = "E"
    /\ cross_data.attrs.cross_section_direction = "E"

(***************************************************************************)
(* The spatial pre-filter and the points each slice is interpolated from.  *)
(***************************************************************************)
\* the least great-circle distance from grid point k to a point of the path
DistanceToPath(k) ==
    Min({haversine_distance(grid_points[k][1], grid_points[k][2],
                            path_points[j][1], path_points[j][2])
             : j \in 1..Len(path_points)})

\* lats and lons are the 2-D arrays of one grid, of the shape of the field's
\* two trailing dimensions
GridOfField ==
    /\ Len(args.lats.shape) = 2
    /\ args.lats.shape = args.lons.shape
    /\ args.lats.shape = TrailShape

\* C26: a grid point is retained if and only if the least of its great-circle
\* distances to the m path points is <= buffer_km, the boundary included;
\* the mask has one entry per grid point, ny * nx of them, in the row-major
\* order of the flattened coordinates, which is the order of the flattened
\* field.
C26_MaskIsBufferTest ==
    spatial_mask # <<>> =>
        /\ Len(path_points) = args.steps
        /\ Len(spatial_mask) = Len(grid_points)
        /\ \A k \in 1..Len(spatial_mask) :
              spatial_mask[k] <=> (DistanceToPath(k) <= args.buffer_km)
        /\ GridOfField =>
              LET ny == args.lats.shape[1]
                  nx == args.lats.shape[2]
              IN  /\ Len(spatial_mask) = ny * nx
                  /\ \A r \in 0..(ny - 1) : \A c \in 0..(nx - 1) :
                        grid_points[r * nx + c + 1] = <<LatAxis[r + 1], LonAxis[c + 1]>>
                  /\ \A i \in 1..Len(data_reshaped) :
                        /\ Len(data_reshaped[i]) = Len(spatial_mask)
                        /\ \A r \in 0..(ny - 1) : \A c \in 0..(nx - 1) :
                              data_reshaped[i][r * nx + c + 1]
                                  = args.data.flat[(i - 1) * ny * nx + r * nx + c + 1]

\* with a buffer of 0 km the mask has kept the grid points that are points of
\* the path, at distance 0, and no other
C26_Witness ==
    /\ pc = "done"
    /\ GridOfField
    /\ args.buffer_km = 0
    /\ Retained(spatial_mask) = 2
    /\ spatial_mask[1] /\ DistanceToPath(1) = 0
    /\ ~spatial_mask[4] /\ DistanceToPath(4) > 0

\* the grid points of slice i (from 0) that are in the mask and whose value
\* in the slice is not NaN
KeptIn(i) ==
    {k \in 1..Len(spatial_mask) : spatial_mask[k] /\ ~IsNaN(data_reshaped[i + 1][k])}

\* C27: the mask is computed once per call and is the same for every slice;
\* the source points handed to the interpolator for a slice are exactly the
\* grid points that are in the mask and whose value in that slice is not
\* NaN, each value with the coordinates of its own grid point: no masked-out
\* or NaN point is used and no valid point of the buffer is left out.
C27_SliceSources ==
    \A n \in 1..Len(calls) :
        LET c == calls[n]
        IN  /\ c.xi = path_points
            /\ Len(c.points) = Cardinality(KeptIn(c.idx))
            /\ Len(c.values) = Len(c.points)
            /\ {<<c.points[q], c.values[q]>> : q \in 1..Len(c.points)}
                   = {<<grid_points[k], data_reshaped[c.idx + 1][k]>> : k \in KeptIn(c.idx)}
            /\ \A q \in 1..Len(c.values) : ~IsNaN(c.values[q])
            /\ \A p \in 1..(n - 1) : calls[p].idx < c.idx

\* with a buffer of 0 km, which leaves grid points out, two slices of one
\* field have been interpolated from different numbers of points
C27_Witness ==
    /\ pc = "done"
    /\ args.buffer_km = 0
    /\ Retained(spatial_mask) < Len(spatial_mask)
    /\ Len(calls) = 2
    /\ Len(calls[1].points) > Len(calls[2].points)
    /\ Len(calls[2].points) > 0

\* C29: under the cartesian method with start # end, the orientation of every
\* path point, by forward, backward or centred difference, is equal to the
\* overall orientation from start to end that the metadata carries: the
\* orientation coordinate is constant along the path.
C29_CartesianConstant ==
    (args.orientation_method = "cartesian" /\ args.start # args.end) =>
        /\ \A i \in 1..Len(point_orientations) : point_orientations[i] = orientation_angle
        /\ (pc = "done" /\ MetadataKeys \subseteq DOMAIN cross_data.attrs) =>
              \A i \in 1..args.steps :
                  CoordNamed(cross_data, "orientation").values[i]
                      = cross_data.attrs.cross_section_orientation_deg

\* the times from `from` up to `to`, `step` hours apart, in the format fmt
Ascending(from, to, step, fmt) ==
    [k \in 1..(((Hours(to) - Hours(from)) \div step) + 1) |->
        Strftime(DatetimeOf(Hours(from) + (k - 1) * step), fmt)]

\* C30: the call terminates with a finite list for every integer interval,
\* 0 and negative ones included: every pass of the loop leaves current_dt
\* nearer to the time at which the loop ends. When it returns with
\* start <= end and interval >= 1, the list is start, start + interval, ...
\* with every such time <= end, in increasing order, and its last entry is
\* end exactly when end - start is a multiple of interval.
C30_Terminates ==
    /\ [][(time_pc = "while" /\ times' # times) =>
              Hours(end_dt) - Hours(current_dt') < Hours(end_dt) - Hours(current_dt)]_vars
    /\ []((time_pc = "done" /\ Hours(start_dt) <= Hours(end_dt) /\ interval >= 1) =>
              /\ times = Ascending(start_dt, end_dt, interval, output_format)
              /\ (times[Len(times)] = Strftime(end_dt, output_format))
                     <=> ((Hours(end_dt) - Hours(start_dt)) % interval = 0))

(***************************************************************************)
(* get_spatial_mask, src/definitions/get_spatial_mask.py lines 12-176.     *)
(***************************************************************************)
InitMask ==
    /\ CrossSectionIdle
    /\ TimeIdle
    /\ CasesIdle
    /\ mask_args \in MaskCalls
    /\ mask_pc = "start"
    /\ MaskLocalsUnset

MaskRaise(at) ==
    /\ mask_pc' = "raised"
    /\ mask_error' = [type |-> "ValueError", at |-> at]

\* lines 75-78: an array of more than two dimensions
MaskNdimError ==
    /\ mask_pc = "start"
    /\ Len(mask_args.lons.shape) > 2 \/ Len(mask_args.lats.shape) > 2
    /\ MaskRaise(IF Len(mask_args.lons.shape) > 2 THEN "lons.ndim" ELSE "lats.ndim")
    /\ UNCHANGED <<cross_section_vars, time_vars, case_vars, mask_args, mask_lons_data,
                   mask_lats_data, region_mask, x_indices, y_indices, x_slice, y_slice,
                   mask_warning>>

\* what step 3 leaves in (lons_data, lats_data)
Expanded(lons, lats) ==
    IF Len(lons.shape) = 1 /\ Len(lats.shape) = 1 THEN Meshgrid(lons, lats)
    ELSE IF Len(lons.shape) = 1 THEN <<BroadcastRow(lons, lats.shape), lats>>
    ELSE IF Len(lats.shape) = 1 THEN <<lons, BroadcastColumn(lats, lons.shape)>>
    ELSE <<lons, lats>>

\* np.broadcast_to of step 3 raises
ExpandRaises(lons, lats) ==
    IF Len(lons.shape) = 1 /\ Len(lats.shape) = 1 THEN FALSE
    ELSE IF Len(lons.shape) = 1 THEN BroadcastRowRaises(lons, lats.shape)
    ELSE IF Len(lats.shape) = 1 THEN BroadcastColumnRaises(lats, lons.shape)
    ELSE FALSE

\* lines 84-116, np.broadcast_to raising on a 1-D array of the wrong length
MaskBroadcastError ==
    /\ mask_pc = "start"
    /\ Len(mask_args.lons.shape) <= 2 /\ Len(mask_args.lats.shape) <= 2
    /\ ExpandRaises(mask_args.lons, mask_args.lats)
    /\ MaskRaise("broadcast_to")
    /\ UNCHANGED <<cross_section_vars, time_vars, case_vars, mask_args, mask_lons_data,
                   mask_lats_data, region_mask, x_indices, y_indices, x_slice, y_slice,
                   mask_warning>>

\* lines 84-116: the values without units, 1-D arrays expanded to 2-D
MaskExpand ==
    /\ mask_pc = "start"
    /\ Len(mask_args.lons.shape) <= 2 /\ Len(mask_args.lats.shape) <= 2
    /\ ~ExpandRaises(mask_args.lons, mask_args.lats)
    /\ mask_lons_data' = Expanded(mask_args.lons, mask_args.lats)[1]
    /\ mask_lats_data' = Expanded(mask_args.lons, mask_args.lats)[2]
    /\ mask_pc' = "shape"
    /\ UNCHANGED <<cross_section_vars, time_vars, case_vars, mask_args, region_mask,
                   x_indices, y_indices, x_slice, y_slice, mask_warning, mask_error>>

\* lines 119-122: the two arrays differ in shape
MaskShapeError ==
    /\ mask_pc = "shape"
    /\ mask_lons_data.shape # mask_lats_data.shape
    /\ MaskRaise("shape")
    /\ UNCHANGED <<cross_section_vars, time_vars, case_vars, mask_args, mask_lons_data,
                   mask_lats_data, region_mask, x_indices, y_indices, x_slice, y_slice,
                   mask_warning>>

\* lines 126-153: the mask, and the columns and rows that hold a point of it
MaskSelect ==
    /\ mask_pc = "shape"
    /\ mask_lons_data.shape = mask_lats_data.shape
    /\ LET m == ExtentMask(mask_lons_data, mask_lats_data, mask_args.extent)
       IN  /\ region_mask' = m
           /\ x_indices' = Where(AnyAxis0(m))
           /\ y_indices' = Where(AnyAxis1(m))
    /\ mask_pc' = "slices"
    /\ UNCHANGED <<cross_section_vars, time_vars, case_vars, mask_args, mask_lons_data,
                   mask_lats_data, x_slice, y_slice, mask_warning, mask_error>>

\* lines 156-167 and 174-176: the slices from the first to the last index
MaskSlices ==
    /\ mask_pc = "slices"
    /\ Len(x_indices) > 0 /\ Len(y_indices) > 0
    /\ x_slice' = Slice(x_indices[1], x_indices[Len(x_indices)] + 1)
    /\ y_slice' = Slice(y_indices[1], y_indices[Len(y_indices)] + 1)
    /\ mask_pc' = "done"
    /\ UNCHANGED <<cross_section_vars, time_vars, case_vars, mask_args, mask_lons_data,
                   mask_lats_data, region_mask, x_indices, y_indices, mask_warning,
                   mask_error>>

\* lines 168-176: no point in the extent: empty slices, a warning, and the
\* return
MaskNoPoint ==
    /\ mask_pc = "slices"
    /\ ~(Len(x_indices) > 0 /\ Len(y_indices) > 0)
    /\ x_slice' = Slice(0, 0)
    /\ y_slice' = Slice(0, 0)
    /\ mask_warning' = TRUE
    /\ mask_pc' = "done"
    /\ UNCHANGED <<cross_section_vars, time_vars, case_vars, mask_args, mask_lons_data,
                   mask_lats_data, region_mask, x_indices, y_indices, mask_error>>

NextMask ==
    \/ MaskNdimError
    \/ MaskBroadcastError
    \/ MaskExpand
    \/ MaskShapeError
    \/ MaskSelect
    \/ MaskSlices
    \/ MaskNoPoint

SpecMask == InitMask /\ [][NextMask]_vars

\* the number of grid points the returned mask holds
MaskCount == Cardinality({k \in 1..Len(region_mask.flat) : region_mask.flat[k]})

\* C21: the call raises ValueError when no grid point lies inside the extent,
\* as it does for an input of more than 2 dimensions and for lons and lats of
\* different shapes: it never returns with a mask that is False everywhere.
C21_NoPointRaises ==
    /\ mask_pc = "done" => MaskCount > 0
    /\ mask_pc = "raised" => mask_error.type = "ValueError"
    /\ (Len(mask_args.lons.shape) > 2 \/ Len(mask_args.lats.shape) > 2) =>
          mask_pc \in {"start", "raised"}

\* a field on the grid of the call: the value of a point is its position
DataFull == [shape |-> region_mask.shape,
             flat  |-> [k \in 1..Len(region_mask.flat) |-> k]]

\* s is a range of consecutive integers
Contiguous(s) == \A i \in 1..(Len(s) - 1) : s[i + 1] = s[i] + 1

\* C22: for every grid, 1-D or 2-D, curvilinear ones included, and every
\* extent, a data array indexed with the returned slices is the array indexed
\* with the returned index lists, data[y_slice, x_slice] ==
\* data[np.ix_(y_indices, x_indices)]: x_indices and y_indices are ranges of
\* consecutive integers.
C22_SlicesAreIndices ==
    mask_pc = "done" =>
        /\ IndexBySlices(DataFull, y_slice, x_slice) = IndexByIx(DataFull, y_indices, x_indices)
        /\ Contiguous(x_indices)
        /\ Contiguous(y_indices)

(***************************************************************************)
(* analyze_cases (src/ana_events_to_case.py, lines 102-157), step by step. *)
(***************************************************************************)
InitCases ==
    /\ CrossSectionIdle
    /\ TimeIdle
    /\ MaskIdle
    /\ case_args \in [events : EventLists, time_threshold : TimeThresholds]
    /\ case_pc = "convert"
    /\ frame = NoFrame
    /\ case_summary = <<>>
    /\ case_next = 0
    /\ case_error = ""

\* line 109: convert_to_datetime raises for a code that is no time
CaseConvertError ==
    /\ case_pc = "convert"
    /\ \E i \in 1..Len(case_args.events) : ConvertRaises(case_args.events[i])
    /\ case_pc' = "raised"
    /\ case_error' = "ValueError"
    /\ UNCHANGED <<cross_section_vars, time_vars, mask_vars, case_args, frame,
                   case_summary, case_next>>

\* lines 109-110: the column datetime, then the rows sorted by it
CaseSort ==
    /\ case_pc = "convert"
    /\ \A i \in 1..Len(case_args.events) : ~ConvertRaises(case_args.events[i])
    /\ LET n == Len(case_args.events)
           datetimes == [i \in 1..n |-> convert_to_datetime(case_args.events[i])]
       IN  \E p \in SortedOrders(datetimes) :
               frame' = [frame EXCEPT !.time10 = [i \in 1..n |-> case_args.events[p[i]]],
                                      !.datetime = [i \in 1..n |-> datetimes[p[i]]]]
    /\ case_pc' = "diff"
    /\ UNCHANGED <<cross_section_vars, time_vars, mask_vars, case_args, case_summary,
                   case_next, case_error>>

\* line 116: the column time_diff_hours
CaseDiff ==
    /\ case_pc = "diff"
    /\ frame' = [frame EXCEPT !.time_diff_hours = DiffHours(frame.datetime)]
    /\ case_pc' = "assign"
    /\ UNCHANGED <<cross_section_vars, time_vars, mask_vars, case_args, case_summary,
                   case_next, case_error>>

\* lines 119-135: the warning is printed only; case_breaks and the column
\* case_id, then the empty case_summary and the first case_id of the loop
CaseAssign ==
    /\ case_pc = "assign"
    /\ frame' = [frame EXCEPT !.case_id =
                     CaseIds(CaseBreaks(frame.time_diff_hours, case_args.time_threshold))]
    /\ case_summary' = <<>>
    /\ case_next' = 1
    /\ case_pc' = "loop"
    /\ UNCHANGED <<cross_section_vars, time_vars, mask_vars, case_args, case_error>>

\* lines 137-155: one pass of the loop over range(1, max(case_id) + 1)
CaseSummarize ==
    /\ case_pc = "loop"
    /\ case_next <= Max({frame.case_id[i] : i \in 1..Len(frame.case_id)})
    /\ case_summary' = Append(case_summary,
                              CaseRecord(frame, case_next, case_args.time_threshold))
    /\ case_next' = case_next + 1
    /\ UNCHANGED <<cross_section_vars, time_vars, mask_vars, case_args, case_pc, frame,
                   case_error>>

\* line 157: the loop is over, df and case_summary are returned
CaseReturn ==
    /\ case_pc = "loop"
    /\ case_next > Max({frame.case_id[i] : i \in 1..Len(frame.case_id)})
    /\ case_pc' = "done"
    /\ UNCHANGED <<cross_section_vars, time_vars, mask_vars, case_args, frame,
                   case_summary, case_next, case_error>>

NextCases ==
    \/ CaseConvertError
    \/ CaseSort
    \/ CaseDiff
    \/ CaseAssign
    \/ CaseSummarize
    \/ CaseReturn

SpecCases == InitCases /\ [][NextCases]_vars

\* the hours between row i of the returned frame and the row before it
GapBefore(i) == Hours(frame.datetime[i]) - Hours(frame.datetime[i - 1])

RECURSIVE StepsSum(_)
StepsSum(k) == IF k = 0 THEN 0 ELSE StepsSum(k - 1) + case_summary[k].duration_steps

\* the rows of the returned frame are the events given, each once
SameEvents ==
    LET n == Len(case_args.events)
    IN  /\ Len(frame.time10) = n
        /\ \A c \in EventCodes :
               Cardinality({i \in 1..n : frame.time10[i] = c})
                   = Cardinality({i \in 1..n : case_args.events[i] = c})

\* C28: when analyze_cases returns, the rows of the frame are the events in
\* the order of their time; the first row has case_id 1; every later row has
\* the case_id of the row before it, plus one exactly when its gap to that
\* row is strictly greater than time_threshold hours; so the case ids are
\* exactly 1..K, K the length of case_summary, they never decrease, entry k
\* of case_summary is the one of case k, and the duration_steps of all
\* entries add up to the number of events.
C28_CasePartition ==
    case_pc = "done" =>
        LET n == Len(case_args.events)
            K == Len(case_summary)
        IN  /\ SameEvents
            /\ Len(frame.case_id) = n
            /\ \A i \in 2..n : GapBefore(i) >= 0
            /\ frame.case_id[1] = 1
            /\ \A i \in 2..n :
                   frame.case_id[i] = frame.case_id[i - 1]
                       + (IF GapBefore(i) > case_args.time_threshold THEN 1 ELSE 0)
            /\ {frame.case_id[i] : i \in 1..n} = 1..K
            /\ \A i \in 2..n : frame.case_id[i - 1] <= frame.case_id[i]
            /\ \A k \in 1..K : case_summary[k].case_id = k
            /\ StepsSum(K) = n

\* a returned call whose events were given out of order, with a gap equal to
\* the threshold inside a case and a longer gap that starts the second case
C28_Witness ==
    /\ case_pc = "done"
    /\ Len(case_summary) = 2
    /\ Len(frame.time10) = 3
    /\ frame.time10 # case_args.events
    /\ GapBefore(2) = case_args.time_threshold
    /\ frame.case_id = <<1, 1, 2>>
    /\ case_summary[1].duration_steps = 2
=============================================================================
